---- MODULE Spec2Model ----
(***************************************************************************)
(* Community Event App backend: the realtime presence registry and        *)
(* message relay (server.js, bundled after middleware/auth.js) and the    *)
(* chat REST routes (routes/chatRoutes.js, bundled after authRoutes.js).  *)
(*                                                                         *)
(* Every socket.io callback and every stretch of an async handler between *)
(* two awaits runs to completion on the node event loop, so each is one   *)
(* action.  A handler that awaits the database is split at the await.     *)
(***************************************************************************)
EXTENDS Integers, Sequences, FiniteSets, TLC

\* ------------------------------------------------------------------ bounds
MaxMessages == 2      \* messages ever created (ids 1..MaxMessages)
MaxSockets == 2       \* socket.io connections ever opened
MaxEvents == 1        \* events ever created (ids 1..MaxEvents)
MaxAttendees == 3     \* no toggle starts on a counter that has drifted this far
MaxGroups == 2        \* groups ever created
MaxPosts == 1         \* posts ever created
MaxComments == 1      \* comments ever created
MaxUsers == 3         \* documents of the users collection

\* --------------------------------------------------------------- universes
\* Documents of the users collection (the accounts bearer tokens name).
Users == {"u1", "u2"}
\* Well-formed ObjectIds a client can put in a payload: the users, and one id
\* that names no user document.
ObjectIds == Users \cup {"u9"}
SocketIds == 1..MaxSockets
\* A payload field that is falsy in JavaScript (undefined, null, "").
Absent == "absent"
\* Message texts a client sends; Trim is String.prototype.trim on them.
Bodies == {" hi ", "  "}
Trim(s) == IF s = " hi " THEN "hi" ELSE ""

VARIABLES
    sockets,         \* socket id -> "new" | "connected" | "disconnected"
    connectedUsers,  \* the Map userId -> socketId, in insertion order
    messages,        \* the messages collection: _id -> document
    nextId,          \* the next _id the collection hands out
    now,             \* the value Date.now() returned last (0: never read)
    sending,         \* sendMessage handlers suspended after Message.create
    reading,         \* GET /messages/:userId handlers suspended at an await
    out,             \* socket.io events emitted by the last step
    res,             \* HTTP response sent by the last step
    events,          \* the events collection: _id -> document
    userDocs,        \* the users collection: _id -> the lists of event ids
    attending,       \* attend and delete handlers of the event routes
                     \* suspended at an await
    groups,          \* the groups collection: _id -> document
    posts,           \* the posts collection: _id -> document
    comments,        \* the comments collection: _id -> document
    grouping,        \* group route handlers suspended at an await
    accounts         \* the users collection: _id -> name, email, password

chatVars == <<sockets, connectedUsers, messages, nextId, now, sending, reading>>
eventVars == <<events, userDocs, attending>>
groupVars == <<groups, posts, comments, grouping>>
authVars == <<accounts>>
vars == <<chatVars, out, res, eventVars, groupVars, authVars>>

\* ---------------------------------------------------------------- values
NoDoc == [_id |-> 0, sender |-> Absent, receiver |-> Absent, message |-> "",
          read |-> FALSE, createdAt |-> 0]
NoError == ""
ValidationMessage == "Sender, receiver, and message are required"
StoreMessage == "store error"
SchemaMessage == "Message validation failed"

\* One socket.io event emitted by the server.
Event(to, ev, msg, ids, error) ==
    [to |-> to, ev |-> ev, msg |-> msg, ids |-> ids, error |-> error]

\* One HTTP response.
Response(to, op, status, body) ==
    [to |-> to, op |-> op, status |-> status, body |-> body]
NoResponse == Response(Absent, "none", 0, <<>>)

\* A user document as User.create leaves it: no event in any of its lists,
\* isActive true.
NoLists == [eventsCreated |-> {}, eventsAttending |-> {}, savedEvents |-> {},
            isActive |-> TRUE]

\* ------------------------------------------------------- users' accounts
\* bcrypt.hash: what is stored is derived from the password, never the
\* password; bcrypt.compare(candidate, hash) is Hash(candidate) = hash.
Hash(p) == [bcrypt |-> p]

\* The sample users of the seed script, created through User.create.
SeedNames == [u1 |-> "John", u2 |-> "Maria", u3 |-> "Alex"]
SeedEmails == [u1 |-> "john@x", u2 |-> "maria@x", u3 |-> "alex@x"]
SeedPassword == "password123"
SeededAccounts(U) ==
    [u \in U |-> [name |-> SeedNames[u], email |-> SeedEmails[u],
                  password |-> Hash(SeedPassword)]]

\* A collection is a sequence of documents, _id the index; a deleted
\* document keeps its place with stored = FALSE: ObjectIds are never reused.
Stored(coll) == {i \in 1..Len(coll) : coll[i].stored}
Remove(coll, ids) ==
    [i \in 1..Len(coll) |-> IF i \in ids THEN [coll[i] EXCEPT !.stored = FALSE]
                            ELSE coll[i]]

\* What Map.get answers for a key that is not there (socket ids start at 1).
Undefined == 0

\* !x of JavaScript on a payload field.
Falsy(x) == x = Absent

\* ------------------------------------------------- connectedUsers (a Map)
\* A JavaScript Map keeps its entries in insertion order; set() on a key that
\* is present replaces the value in place.
MapHas(m, k) == \E i \in 1..Len(m) : m[i].userId = k

MapGet(m, k) ==
    IF MapHas(m, k)
    THEN m[CHOOSE i \in 1..Len(m) : m[i].userId = k].socketId
    ELSE Undefined

\* A registry that adds an entry per registration and never replaces one.
MapSetAppends(m, k, v) == Append(m, [userId |-> k, socketId |-> v])

MapSet(m, k, v) ==
    IF MapHas(m, k)
    THEN [i \in 1..Len(m) |->
            IF m[i].userId = k THEN [userId |-> k, socketId |-> v] ELSE m[i]]
    ELSE Append(m, [userId |-> k, socketId |-> v])

MapDeleteAt(m, i) == SubSeq(m, 1, i - 1) \o SubSeq(m, i + 1, Len(m))

\* A loop that deletes the oldest entry, whatever its value.
RemoveOldest(m, c) == IF m = <<>> THEN m ELSE MapDeleteAt(m, 1)

\* The for..of loop of the disconnect handler: the first entry, in insertion
\* order, whose value is the socket is deleted, and the loop breaks.
RemoveSocket(m, c) ==
    IF \E i \in 1..Len(m) : m[i].socketId = c
    THEN MapDeleteAt(m, CHOOSE i \in 1..Len(m) :
                          /\ m[i].socketId = c
                          /\ \A j \in 1..(i - 1) : m[j].socketId # c)
    ELSE m

\* ------------------------------------------------------------------- Init
Init ==
    /\ sockets = [c \in SocketIds |-> "new"]
    /\ connectedUsers = <<>>
    /\ messages = <<>>
    /\ nextId = 1
    /\ now = 0
    /\ sending = {}
    /\ reading = {}
    /\ out = {}
    /\ res = NoResponse
    /\ events = <<>>
    /\ userDocs = [u \in Users |-> NoLists]
    /\ attending = {}
    /\ groups = <<>>
    /\ posts = <<>>
    /\ comments = <<>>
    /\ grouping = {}
    /\ accounts = SeededAccounts(Users)

\* ------------------------------------------------------- realtime channel
\* io.on("connection"): socket.io hands out a fresh id per connection.
Connect(c) ==
    /\ sockets[c] = "new"
    /\ \A d \in SocketIds : d < c => sockets[d] # "new"
    /\ sockets' = [sockets EXCEPT ![c] = "connected"]
    /\ out' = {}
    /\ res' = NoResponse
    /\ UNCHANGED <<connectedUsers, messages, nextId, now, sending, reading>>
    /\ UNCHANGED <<eventVars, groupVars, authVars>>

\* socket.on("register")
Register(c, userId) ==
    /\ sockets[c] = "connected"
    /\ connectedUsers' = MapSet(connectedUsers, userId, c)
    /\ out' = {}
    /\ res' = NoResponse
    /\ UNCHANGED <<sockets, messages, nextId, now, sending, reading>>
    /\ UNCHANGED <<eventVars, groupVars, authVars>>

\* socket.on("disconnect")
Disconnect(c) ==
    /\ sockets[c] = "connected"
    /\ sockets' = [sockets EXCEPT ![c] = "disconnected"]
    /\ connectedUsers' = RemoveSocket(connectedUsers, c)
    /\ out' = {}
    /\ res' = NoResponse
    /\ UNCHANGED <<messages, nextId, now, sending, reading>>
    /\ UNCHANGED <<eventVars, groupVars, authVars>>

\* ---------------------------------------------------- messages collection
\* Date.now() never goes back: a new document is stamped with the millisecond
\* of the previous one or with a later one.
Timestamps == IF now = 0 THEN {1} ELSE {now, now + 1}
\* Every document in a millisecond of its own.
LaterTimestamp == {now + 1}

\* A schema whose read flag defaults to true.
NewDocRead(sender, receiver, message, t) ==
    [_id |-> nextId, sender |-> sender, receiver |-> receiver,
     message |-> Trim(message), read |-> TRUE, createdAt |-> t]

\* Message.create: the schema trims the text, read defaults to false.
NewDoc(sender, receiver, message, t) ==
    [_id |-> nextId, sender |-> sender, receiver |-> receiver,
     message |-> Trim(message), read |-> FALSE, createdAt |-> t]

\* The schema's validators: sender and receiver are required, and so is the
\* text after trimming.
SchemaValid(sender, receiver, message) ==
    sender # Absent /\ receiver # Absent /\ message # Absent /\ Trim(message) # ""

\* A create that builds the document and never saves it.
InsertNothing(doc) == messages

\* The collection after the document is saved.
Insert(doc) == (doc._id :> doc) @@ messages

\* Message.find(filter): the matching documents.
Find(Match(_)) == {messages[i] : i \in {j \in DOMAIN messages : Match(messages[j])}}

\* Message.updateMany(filter, {read: true, ...})
UpdateManyRead(Match(_)) ==
    [i \in DOMAIN messages |->
        IF Match(messages[i]) THEN [messages[i] EXCEPT !.read = TRUE]
        ELSE messages[i]]

\* .populate("sender", ...).populate("receiver", ...): a reference to a user
\* document that does not exist is replaced by null.
Null == "null"
PopulateRef(id) == IF id \in Users THEN id ELSE Null
Populate(doc) == [doc EXCEPT !.sender = PopulateRef(doc.sender),
                             !.receiver = PopulateRef(doc.receiver)]

\* .sort({createdAt: dir}): every order of the documents that is sorted on
\* createdAt; documents of the same millisecond come in any order.
Orderings(S) ==
    {q \in [1..Cardinality(S) -> S] : \A i, j \in 1..Cardinality(S) : i # j => q[i] # q[j]}
SortAscending(S) ==
    {q \in Orderings(S) : \A i, j \in 1..Len(q) : i < j => q[i].createdAt <= q[j].createdAt}
SortDescending(S) ==
    {q \in Orderings(S) : \A i, j \in 1..Len(q) : i < j => q[i].createdAt >= q[j].createdAt}

\* ------------------------------------------------------------ sendMessage
\* if (!sender || !receiver || !message)
RequiredFieldsMissing(sender, receiver, message) ==
    Falsy(sender) \/ Falsy(receiver) \/ Falsy(message)

\* A catch block that only logs.
ErrorSwallowed(c, text) == {}

\* The catch block: messageError to the socket of the handler.
ErrorReply(c, text) == {Event(c, "messageError", NoDoc, {}, text)}

\* The handler throws before any await: a field of the payload is falsy.
SendMessageInvalid(c, sender, receiver, message) ==
    /\ sockets[c] = "connected"
    /\ RequiredFieldsMissing(sender, receiver, message)
    /\ out' = ErrorReply(c, ValidationMessage)
    /\ res' = NoResponse
    /\ UNCHANGED <<sockets, connectedUsers, messages, nextId, now, sending, reading>>
    /\ UNCHANGED <<eventVars, groupVars, authVars>>

\* Message.create rejects: the schema refuses the document, or the store fails.
SendMessageCreateFails(c, sender, receiver, message) ==
    /\ sockets[c] = "connected"
    /\ ~RequiredFieldsMissing(sender, receiver, message)
    /\ out' = ErrorReply(c, IF SchemaValid(sender, receiver, message)
                            THEN StoreMessage ELSE SchemaMessage)
    /\ res' = NoResponse
    /\ UNCHANGED <<sockets, connectedUsers, messages, nextId, now, sending, reading>>
    /\ UNCHANGED <<eventVars, groupVars, authVars>>

\* Message.create resolves; the handler is suspended at the populate awaits.
SendMessage(c, sender, receiver, message, t) ==
    /\ sockets[c] = "connected"
    /\ ~RequiredFieldsMissing(sender, receiver, message)
    /\ SchemaValid(sender, receiver, message)
    /\ nextId <= MaxMessages
    /\ LET newMessage == NewDoc(sender, receiver, message, t) IN
        /\ messages' = Insert(newMessage)
        /\ now' = t
        /\ sending' = sending \cup {[socket |-> c, receiver |-> receiver,
                                     newMessage |-> newMessage]}
    /\ nextId' = nextId + 1
    /\ out' = {}
    /\ res' = NoResponse
    /\ UNCHANGED <<sockets, connectedUsers, reading>>
    /\ UNCHANGED <<eventVars, groupVars, authVars>>

\* One of the populate awaits rejects: the catch block answers.
SendPopulateFails(p) ==
    /\ p \in sending
    /\ sending' = sending \ {p}
    /\ out' = ErrorReply(p.socket, StoreMessage)
    /\ res' = NoResponse
    /\ UNCHANGED <<sockets, connectedUsers, messages, nextId, now, reading>>
    /\ UNCHANGED <<eventVars, groupVars, authVars>>

\* io.emit in place of io.to(receiverSocketId).emit.
DeliveryBroadcast(p) ==
    {Event(c, "newMessage", Populate(p.newMessage), {}, NoError) :
        c \in {d \in SocketIds : sockets[d] = "connected"}}
    \cup {Event(p.socket, "messageSent", Populate(p.newMessage), {}, NoError)}

\* What the handler emits once populated: newMessage to the receiver's socket
\* when connectedUsers has one, messageSent to the sending socket.
Delivery(p) ==
    LET receiverSocketId == MapGet(connectedUsers, p.receiver)
        doc == Populate(p.newMessage)
    IN  (IF receiverSocketId # Undefined
         THEN {Event(receiverSocketId, "newMessage", doc, {}, NoError)}
         ELSE {})
        \cup {Event(p.socket, "messageSent", doc, {}, NoError)}

\* The populate awaits resolve; lookup and both emits run without an await.
SendDeliver(p) ==
    /\ p \in sending
    /\ sending' = sending \ {p}
    /\ out' = Delivery(p)
    /\ res' = NoResponse
    /\ UNCHANGED <<sockets, connectedUsers, messages, nextId, now, reading>>
    /\ UNCHANGED <<eventVars, groupVars, authVars>>

\* ------------------------------------------------------------- markAsRead
\* The filter of the handler's updateMany.
MarkAsReadFilter(messageIds, userId, doc) ==
    doc._id \in messageIds /\ doc.receiver = userId

MarkAsRead(c, messageIds, userId) ==
    /\ sockets[c] = "connected"
    /\ LET Match(doc) == MarkAsReadFilter(messageIds, userId, doc)
       IN messages' = UpdateManyRead(Match)
    /\ out' = {Event(c, "messagesMarkedRead", NoDoc, messageIds, NoError)}
    /\ res' = NoResponse
    /\ UNCHANGED <<sockets, connectedUsers, nextId, now, sending, reading>>
    /\ UNCHANGED <<eventVars, groupVars, authVars>>

\* updateMany rejects: the catch block only logs.
MarkAsReadFails(c) ==
    /\ sockets[c] = "connected"
    /\ out' = {}
    /\ res' = NoResponse
    /\ UNCHANGED <<sockets, connectedUsers, messages, nextId, now, sending, reading>>
    /\ UNCHANGED <<eventVars, groupVars, authVars>>

\* ------------------------------------------- GET /api/chat/conversations
\* The entry of `map` for partnerId (conversationsMap.get).
EntryIndex(map, partnerId) == CHOOSE i \in 1..Len(map) : map[i].partnerId = partnerId
HasEntry(map, partnerId) == \E i \in 1..Len(map) : map[i].partnerId = partnerId

\* msg.sender._id / msg.receiver._id on a populated document throw a
\* TypeError when the reference was populated with null.
Dereferences(msg) == msg.sender # Null /\ msg.receiver # Null

PartnerOf(msg, userId) == IF msg.sender = userId THEN msg.receiver ELSE msg.sender

\* One turn of messages.forEach: a first message of a partner opens the
\* partner's entry, an unread message addressed to the user is counted.
AddMessage(map, msg, userId) ==
    LET partnerId == PartnerOf(msg, userId)
        opened == IF HasEntry(map, partnerId) THEN map
                  ELSE Append(map, [partnerId |-> partnerId, lastMessage |-> msg,
                                    unreadCount |-> 0])
        k == EntryIndex(opened, partnerId)
    IN  IF msg.receiver = userId /\ ~msg.read
        THEN [opened EXCEPT ![k].unreadCount = @ + 1]
        ELSE opened

RECURSIVE GroupByPartner(_, _, _)
GroupByPartner(msgs, userId, map) ==
    IF msgs = <<>> THEN map
    ELSE GroupByPartner(Tail(msgs), userId, AddMessage(map, Head(msgs), userId))

ConversationsFilter(userId, doc) == doc.sender = userId \/ doc.receiver = userId

PopulateAll(q) == [i \in 1..Len(q) |-> Populate(q[i])]

\* What the handler can answer in this state: one answer per order the sort
\* can give; 500 from the catch block when a dereference throws.
ConversationsResponses(userId) ==
    LET Match(doc) == ConversationsFilter(userId, doc) IN
    {LET msgs == PopulateAll(q) IN
       IF \A i \in 1..Len(msgs) : Dereferences(msgs[i])
       THEN Response(userId, "conversations", 200, GroupByPartner(msgs, userId, <<>>))
       ELSE Response(userId, "conversations", 500, <<>>)
     : q \in SortDescending(Find(Match))}

Conversations(userId) ==
    /\ res' \in ConversationsResponses(userId)
    /\ out' = {}
    /\ UNCHANGED <<sockets, connectedUsers, messages, nextId, now, sending, reading>>
    /\ UNCHANGED <<eventVars, groupVars, authVars>>

\* ------------------------------------------ GET /api/chat/messages/:userId
\* A filter that finds only what the requester sent.
HistoryFilterSentOnly(currentUserId, otherUserId, doc) ==
    doc.sender = currentUserId /\ doc.receiver = otherUserId

HistoryFilter(currentUserId, otherUserId, doc) ==
    \/ doc.sender = currentUserId /\ doc.receiver = otherUserId
    \/ doc.sender = otherUserId /\ doc.receiver = currentUserId

HistoryReadFilter(currentUserId, otherUserId, doc) ==
    doc.sender = otherUserId /\ doc.receiver = currentUserId /\ ~doc.read

\* Message.find resolves; the handler is suspended at the updateMany await.
\* A client waits for the answer before it asks for another history.
HistoryFind(currentUserId, otherUserId) ==
    /\ \A r \in reading : r.currentUserId # currentUserId
    /\ LET Match(doc) == HistoryFilter(currentUserId, otherUserId, doc) IN
       \E q \in SortAscending(Find(Match)) :
         reading' = reading \cup {[currentUserId |-> currentUserId,
                                   otherUserId |-> otherUserId,
                                   messages |-> PopulateAll(q),
                                   pc |-> "updateMany"]}
    /\ out' = {}
    /\ res' = NoResponse
    /\ UNCHANGED <<sockets, connectedUsers, messages, nextId, now, sending>>
    /\ UNCHANGED <<eventVars, groupVars, authVars>>

\* The store applies the updateMany.
HistoryUpdate(r) ==
    /\ r \in reading
    /\ r.pc = "updateMany"
    /\ LET Match(doc) == HistoryReadFilter(r.currentUserId, r.otherUserId, doc)
       IN messages' = UpdateManyRead(Match)
    /\ reading' = (reading \ {r}) \cup {[r EXCEPT !.pc = "respond"]}
    /\ out' = {}
    /\ res' = NoResponse
    /\ UNCHANGED <<sockets, connectedUsers, nextId, now, sending>>
    /\ UNCHANGED <<eventVars, groupVars, authVars>>

\* The updateMany await resolves: res.json with the documents found.
HistoryRespond(r) ==
    /\ r \in reading
    /\ r.pc = "respond"
    /\ reading' = reading \ {r}
    /\ res' = Response(r.currentUserId, "history", 200, r.messages)
    /\ out' = {}
    /\ UNCHANGED <<sockets, connectedUsers, messages, nextId, now, sending>>
    /\ UNCHANGED <<eventVars, groupVars, authVars>>

\* The updateMany rejects: the catch block answers 500.
HistoryFails(r) ==
    /\ r \in reading
    /\ r.pc = "updateMany"
    /\ reading' = reading \ {r}
    /\ res' = Response(r.currentUserId, "history", 500, <<>>)
    /\ out' = {}
    /\ UNCHANGED <<sockets, connectedUsers, messages, nextId, now, sending>>
    /\ UNCHANGED <<eventVars, groupVars, authVars>>

\* ---------------------------------------------------- POST /api/chat/send
RestSend(sender, receiver, message, t) ==
    /\ IF Falsy(receiver) \/ Falsy(message)
       THEN /\ res' = Response(sender, "send", 400, <<>>)
            /\ UNCHANGED <<messages, nextId, now>>
       ELSE IF ~SchemaValid(sender, receiver, message)
       THEN /\ res' = Response(sender, "send", 500, <<>>)
            /\ UNCHANGED <<messages, nextId, now>>
       ELSE /\ nextId <= MaxMessages
            /\ LET newMessage == NewDoc(sender, receiver, message, t) IN
                /\ messages' = Insert(newMessage)
                /\ now' = t
                /\ res' = Response(sender, "send", 201, <<Populate(newMessage)>>)
            /\ nextId' = nextId + 1
    /\ out' = {}
    /\ UNCHANGED <<sockets, connectedUsers, sending, reading>>
    /\ UNCHANGED <<eventVars, groupVars, authVars>>

\* ------------------------------------ DELETE /api/chat/messages/:messageId
\* A handler without the sender check.
DeleteByAnyone(userId, messageId) ==
    /\ IF messageId \notin DOMAIN messages
       THEN /\ res' = Response(userId, "delete", 404, <<>>)
            /\ UNCHANGED messages
       ELSE /\ messages' = [i \in DOMAIN messages \ {messageId} |-> messages[i]]
            /\ res' = Response(userId, "delete", 200, <<>>)
    /\ out' = {}
    /\ UNCHANGED <<sockets, connectedUsers, nextId, now, sending, reading>>
    /\ UNCHANGED <<eventVars, groupVars, authVars>>

Delete(userId, messageId) ==
    /\ IF messageId \notin DOMAIN messages
       THEN /\ res' = Response(userId, "delete", 404, <<>>)
            /\ UNCHANGED messages
       ELSE IF messages[messageId].sender # userId
       THEN /\ res' = Response(userId, "delete", 403, <<>>)
            /\ UNCHANGED messages
       ELSE /\ messages' = [i \in DOMAIN messages \ {messageId} |-> messages[i]]
            /\ res' = Response(userId, "delete", 200, <<>>)
    /\ out' = {}
    /\ UNCHANGED <<sockets, connectedUsers, nextId, now, sending, reading>>
    /\ UNCHANGED <<eventVars, groupVars, authVars>>

\* ============================================================ events
\* ----------------------------------------------------- events collection
\* capacity: null, "unlimited capacity" (Event.js); a capacity is at least 1.
Unlimited == 0
Capacities == {Unlimited, 1, 2}

\* new Event({...}): attendees 0, no attendee, capacity || null.
NewEvent(creator, capacity) ==
    [creator |-> creator, capacity |-> capacity, attendees |-> 0,
     attendeesList |-> <<>>, status |-> "published", stored |-> TRUE]

Max(a, b) == IF a >= b THEN a ELSE b

\* attendeesList.some(id => id.toString() === userId.toString())
IsAttending(event, userId) ==
    \E i \in 1..Len(event.attendeesList) : event.attendeesList[i] = userId

\* attendeesList.filter(id => id.toString() !== userId.toString())
Without(list, userId) == SelectSeq(list, LAMBDA id : id # userId)

\* A check that lets one more in: > in place of >=.
AtCapacityStrict(event) ==
    event.capacity # Unlimited /\ Len(event.attendeesList) > event.capacity

\* event.capacity && event.attendeesList.length >= event.capacity
AtCapacity(event) ==
    event.capacity # Unlimited /\ Len(event.attendeesList) >= event.capacity

\* The document in the handler's memory after the attend or the unattend
\* branch has run on the document findById returned.
ToggleLocal(event, userId) ==
    IF IsAttending(event, userId)
    THEN [event EXCEPT !.attendeesList = Without(@, userId),
                       !.attendees = Max(0, @ - 1)]
    ELSE [event EXCEPT !.attendeesList = Append(@, userId),
                       !.attendees = @ + 1]

\* -------------------------------------------------------- POST /api/events
CreateEvent(userId, complete, capacity) ==
    /\ IF ~complete
       THEN /\ res' = Response(userId, "createEvent", 400, <<>>)
            /\ UNCHANGED <<events, userDocs>>
       ELSE /\ Len(events) < MaxEvents
            /\ LET savedEvent == NewEvent(userId, capacity) IN
                /\ events' = Append(events, savedEvent)
                /\ userDocs' = [userDocs EXCEPT ![userId].eventsCreated =
                                                  @ \cup {Len(events) + 1}]
                /\ res' = Response(userId, "createEvent", 201, <<savedEvent>>)
    /\ out' = {}
    /\ UNCHANGED <<attending, chatVars, groupVars, authVars>>

\* ----------------------------------------------------- PUT /api/events/:id
\* updateData: a field of the body that is given replaces the document's.
\* `attendees` and `capacity` are sets with the given value, or empty.
UpdateData(event, attendees, capacity) ==
    [event EXCEPT !.attendees = IF attendees = {} THEN @
                                ELSE CHOOSE n \in attendees : TRUE,
                  !.capacity = IF capacity = {} THEN @
                               ELSE CHOOSE n \in capacity : TRUE]

UpdateEvent(userId, id, attendees, capacity) ==
    /\ IF id \notin Stored(events)
       THEN /\ res' = Response(userId, "updateEvent", 404, <<>>)
            /\ UNCHANGED events
       ELSE IF ~Falsy(events[id].creator) /\ events[id].creator # userId
       THEN /\ res' = Response(userId, "updateEvent", 403, <<>>)
            /\ UNCHANGED events
       ELSE LET updatedEvent == UpdateData(events[id], attendees, capacity) IN
            /\ events' = [events EXCEPT ![id] = updatedEvent]
            /\ res' = Response(userId, "updateEvent", 200, <<updatedEvent>>)
    /\ out' = {}
    /\ UNCHANGED <<userDocs, attending, chatVars, groupVars, authVars>>

\* ------------------------------------------- PATCH /api/events/:id/status
ValidStatuses == {"draft", "published", "cancelled"}

SetStatus(userId, id, status) ==
    /\ IF status \notin ValidStatuses
       THEN /\ res' = Response(userId, "status", 400, <<>>)
            /\ UNCHANGED events
       ELSE IF id \notin Stored(events)
       THEN /\ res' = Response(userId, "status", 404, <<>>)
            /\ UNCHANGED events
       ELSE IF ~Falsy(events[id].creator) /\ events[id].creator # userId
       THEN /\ res' = Response(userId, "status", 403, <<>>)
            /\ UNCHANGED events
       ELSE /\ events' = [events EXCEPT ![id].status = status]
            /\ res' = Response(userId, "status", 200, <<events'[id]>>)
    /\ out' = {}
    /\ UNCHANGED <<userDocs, attending, chatVars, groupVars, authVars>>

\* ------------------------------------------- PATCH /api/events/:id/attend
\* findById resolves.  404 and the capacity error answer at once; otherwise
\* the branch has changed the document in memory and the handler is
\* suspended at User.findByIdAndUpdate.  A client waits for the answer
\* before it toggles again.
AttendFind(userId, id) ==
    /\ \A r \in attending : r.userId # userId
    /\ IF id \notin Stored(events)
       THEN /\ res' = Response(userId, "attend", 404, <<>>)
            /\ UNCHANGED attending
       ELSE IF ~IsAttending(events[id], userId) /\ AtCapacity(events[id])
       THEN /\ res' = Response(userId, "attend", 400, <<>>)
            /\ UNCHANGED attending
       ELSE /\ events[id].attendees < MaxAttendees
            /\ attending' = attending \cup
                  {[userId |-> userId, id |-> id,
                    isAttending |-> IsAttending(events[id], userId),
                    event |-> ToggleLocal(events[id], userId),
                    conflict |-> FALSE, pc |-> "user"]}
            /\ res' = NoResponse
    /\ out' = {}
    /\ UNCHANGED <<events, userDocs, chatVars, groupVars, authVars>>

\* $pull in the unattend branch, $addToSet in the attend branch.
ToggleAttending(eventsAttending, isAttending, id) ==
    IF isAttending THEN eventsAttending \ {id} ELSE eventsAttending \cup {id}

\* User.findByIdAndUpdate on eventsAttending.
AttendUser(r) ==
    /\ r \in attending
    /\ r.pc = "user"
    /\ userDocs' = [userDocs EXCEPT ![r.userId].eventsAttending =
                       ToggleAttending(@, r.isAttending, r.id)]
    /\ attending' = (attending \ {r}) \cup {[r EXCEPT !.pc = "save"]}
    /\ out' = {}
    /\ res' = NoResponse
    /\ UNCHANGED <<events, chatVars, groupVars, authVars>>

\* What event.save() writes.  The pushed id goes out as $push on the stored
\* array and bumps the document's version; the filtered array goes out as
\* $set of the whole array, which is refused (VersionError) when the version
\* has moved since findById.  attendees goes out as $set in both branches.
\* A save that finds no document to update is refused as well.
SaveRefused(r) == (r.isAttending /\ r.conflict) \/ r.id \notin Stored(events)

Saved(r) ==
    [events EXCEPT ![r.id].attendeesList =
                       IF r.isAttending THEN r.event.attendeesList
                       ELSE Append(@, r.userId),
                   ![r.id].attendees = r.event.attendees]

\* event.save() resolves or rejects; the populates follow and res.json
\* answers with the document in memory.
AttendSave(r) ==
    /\ r \in attending
    /\ r.pc = "save"
    /\ IF SaveRefused(r)
       THEN /\ res' = Response(r.userId, "attend", 500, <<>>)
            /\ attending' = attending \ {r}
            /\ UNCHANGED events
       ELSE /\ events' = Saved(r)
            /\ res' = Response(r.userId, "attend", 200, <<r.event>>)
            /\ attending' = {IF q.id = r.id THEN [q EXCEPT !.conflict = TRUE] ELSE q :
                                q \in attending \ {r}}
    /\ out' = {}
    /\ UNCHANGED <<userDocs, chatVars, groupVars, authVars>>

\* event.save() rejects because the store fails: the catch block answers 500.
AttendSaveFails(r) ==
    /\ r \in attending
    /\ r.pc = "save"
    /\ attending' = attending \ {r}
    /\ res' = Response(r.userId, "attend", 500, <<>>)
    /\ out' = {}
    /\ UNCHANGED <<events, userDocs, chatVars, groupVars, authVars>>

\* -------------------------------------------------- DELETE /api/events/:id
\* findById resolves: 404, 403, or the handler goes on to
\* Event.findByIdAndDelete.
DeleteEventFind(userId, id) ==
    /\ \A r \in attending : r.userId # userId
    /\ IF id \notin Stored(events)
       THEN /\ res' = Response(userId, "deleteEvent", 404, <<>>)
            /\ UNCHANGED attending
       ELSE IF ~Falsy(events[id].creator) /\ events[id].creator # userId
       THEN /\ res' = Response(userId, "deleteEvent", 403, <<>>)
            /\ UNCHANGED attending
       ELSE /\ attending' = attending \cup
                  {[userId |-> userId, id |-> id, isAttending |-> FALSE,
                    event |-> events[id], conflict |-> FALSE,
                    pc |-> "findByIdAndDelete"]}
            /\ res' = NoResponse
    /\ out' = {}
    /\ UNCHANGED <<events, userDocs, chatVars, groupVars, authVars>>

\* The three writes of the handler, one await each: the event, the
\* requester's eventsCreated, every user's eventsAttending and savedEvents;
\* then the answer.
DeleteEventStep(r) ==
    /\ r \in attending
    /\ \/ /\ r.pc = "findByIdAndDelete"
          /\ events' = Remove(events, {r.id})
          /\ attending' = (attending \ {r}) \cup {[r EXCEPT !.pc = "pullCreated"]}
          /\ res' = NoResponse
          /\ UNCHANGED userDocs
       \/ /\ r.pc = "pullCreated"
          /\ userDocs' = [userDocs EXCEPT ![r.userId].eventsCreated = @ \ {r.id}]
          /\ attending' = (attending \ {r}) \cup {[r EXCEPT !.pc = "updateMany"]}
          /\ res' = NoResponse
          /\ UNCHANGED events
       \/ /\ r.pc = "updateMany"
          /\ userDocs' = [u \in DOMAIN userDocs |->
                            [userDocs[u] EXCEPT !.eventsAttending = @ \ {r.id},
                                                !.savedEvents = @ \ {r.id}]]
          /\ attending' = attending \ {r}
          /\ res' = Response(r.userId, "deleteEvent", 200, <<r.event>>)
          /\ UNCHANGED events
    /\ out' = {}
    /\ UNCHANGED <<chatVars, groupVars, authVars>>

EventIds == 1..MaxEvents
PutAttendees == {{}, {0}}
PutCapacities == {{}, {1}}

Attendance ==
    \/ \E u \in Users, e \in EventIds : AttendFind(u, e)
    \/ \E r \in attending : AttendUser(r) \/ AttendSave(r)

Events ==
    \/ \E u \in Users, complete \in BOOLEAN, n \in Capacities : CreateEvent(u, complete, n)
    \/ Attendance
    \/ \E u \in Users, e \in EventIds, a \in PutAttendees, n \in PutCapacities :
         UpdateEvent(u, e, a, n)
    \/ \E u \in Users, e \in EventIds, s \in {"cancelled", "bogus"} : SetStatus(u, e, s)

EventDeletes ==
    \/ \E u \in Users, e \in EventIds : DeleteEventFind(u, e)
    \/ \E r \in attending : DeleteEventStep(r)

\* ============================================================ groups
GroupNames == {"a", "b"}
Contents == {"text", Absent}

\* Group.create({name, creator, admins: [creator], members: [creator]}); the
\* pre("save") hook sets memberCount.
NewGroup(name, userId) ==
    [name |-> name, creator |-> userId, admins |-> {userId}, members |-> {userId},
     memberCount |-> 1, postCount |-> 0, stored |-> TRUE]

\* Post.create({group, author, content})
NewPost(id, userId) ==
    [group |-> id, author |-> userId, likes |-> {}, likeCount |-> 0,
     commentCount |-> 0, stored |-> TRUE]

\* A handler suspended at an await: the route, the requester, the id in the
\* path, the await it waits on, the document it loaded and will save
\* (`target` its _id), the name of the request body, and whether the
\* document's version has moved since it was loaded.
Suspended(op, userId, id, pc, loaded, target, name) ==
    [op |-> op, userId |-> userId, id |-> id, pc |-> pc, postIds |-> {},
     loaded |-> loaded, target |-> target, name |-> name, conflict |-> FALSE]

\* The handlers of `op` that user `userId` has in flight.
InFlight(userId, op) == {r \in grouping : r.userId = userId /\ r.op = op}

\* The routes that end in group.save(), and those that end in post.save().
GroupSavers == {"updateGroup", "join", "leave", "createPost", "deletePost"}
PostSavers == {"like", "createComment", "deleteComment"}

\* The handlers other than `r` that hold the document `r` saves; `moved`
\* tells whether the save bumps its version.
Others(r, savers, moved) ==
    {IF moved /\ q.op \in savers /\ q.target = r.target
     THEN [q EXCEPT !.conflict = TRUE] ELSE q : q \in grouping \ {r}}

\* ------------------------------------------------------------ group.save()
\* The group document in the handler's memory when it calls save().
LocalGroup(r) ==
    LET g == r.loaded IN
    CASE r.op = "updateGroup" -> [g EXCEPT !.name = r.name]
      [] r.op = "join" -> [g EXCEPT !.members = @ \cup {r.userId}]
      [] r.op = "leave" -> [g EXCEPT !.members = @ \ {r.userId},
                                     !.admins = @ \ {r.userId}]
      [] r.op = "createPost" -> [g EXCEPT !.postCount = @ + 1]
      [] r.op = "deletePost" -> [g EXCEPT !.postCount = Max(0, @ - 1)]

\* groupSchema.pre("save")
PreSaveGroup(group) == [group EXCEPT !.memberCount = Cardinality(group.members)]

\* A member list that lost an element goes out as $set of the whole array,
\* with the loaded version in the filter; one that gained an element goes
\* out as $push.
SetsGroupArray(loaded, local) ==
    ~(loaded.members \subseteq local.members) \/ local.admins # loaded.admins
MovesGroup(loaded, local) ==
    local.members # loaded.members \/ local.admins # loaded.admins

\* save() rejects when no document matches: the group is gone, or the
\* version in the filter is not the stored one.
GroupSaveRefused(r) ==
    \/ r.target \notin Stored(groups)
    \/ SetsGroupArray(r.loaded, LocalGroup(r)) /\ r.conflict

\* save() writes the paths that differ from the loaded document.
GroupSaved(stored, loaded, group) ==
    LET local == PreSaveGroup(group) IN
    [stored EXCEPT
       !.name = IF local.name # loaded.name THEN local.name ELSE @,
       !.postCount = IF local.postCount # loaded.postCount THEN local.postCount ELSE @,
       !.memberCount = IF local.memberCount # loaded.memberCount
                       THEN local.memberCount ELSE @,
       !.members = IF loaded.members \subseteq local.members
                   THEN @ \cup (local.members \ loaded.members)
                   ELSE local.members,
       !.admins = IF local.admins # loaded.admins THEN local.admins ELSE @]

\* group.save() resolves or rejects, and the answer follows.
GroupSave(r, status) ==
    /\ IF GroupSaveRefused(r)
       THEN /\ res' = Response(r.userId, r.op, 500, <<>>)
            /\ grouping' = grouping \ {r}
            /\ UNCHANGED groups
       ELSE /\ groups' = [groups EXCEPT
                            ![r.target] = GroupSaved(@, r.loaded, LocalGroup(r))]
            /\ res' = Response(r.userId, r.op, status, <<>>)
            /\ grouping' = Others(r, GroupSavers, MovesGroup(r.loaded, LocalGroup(r)))

\* ------------------------------------------------------------- post.save()
LocalPost(r) ==
    LET p == r.loaded IN
    CASE r.op = "like" -> [p EXCEPT !.likes = IF r.userId \in @ THEN @ \ {r.userId}
                                               ELSE @ \cup {r.userId}]
      [] r.op = "createComment" -> [p EXCEPT !.commentCount = @ + 1]
      [] r.op = "deleteComment" -> [p EXCEPT !.commentCount = Max(0, @ - 1)]

\* postSchema.pre("save")
PreSavePost(post) == [post EXCEPT !.likeCount = Cardinality(post.likes)]

PostSaveRefused(r) ==
    \/ r.target \notin Stored(posts)
    \/ ~(r.loaded.likes \subseteq LocalPost(r).likes) /\ r.conflict

PostSaved(stored, loaded, post) ==
    LET local == PreSavePost(post) IN
    [stored EXCEPT
       !.commentCount = IF local.commentCount # loaded.commentCount
                        THEN local.commentCount ELSE @,
       !.likeCount = IF local.likeCount # loaded.likeCount THEN local.likeCount ELSE @,
       !.likes = IF loaded.likes \subseteq local.likes
                 THEN @ \cup (local.likes \ loaded.likes)
                 ELSE local.likes]

PostDocSave(r, status) ==
    /\ IF PostSaveRefused(r)
       THEN /\ res' = Response(r.userId, r.op, 500, <<>>)
            /\ grouping' = grouping \ {r}
            /\ UNCHANGED posts
       ELSE /\ posts' = [posts EXCEPT
                           ![r.target] = PostSaved(@, r.loaded, LocalPost(r))]
            /\ res' = Response(r.userId, r.op, status, <<>>)
            /\ grouping' = Others(r, PostSavers, LocalPost(r).likes # r.loaded.likes)

\* -------------------------------------------------------- POST /api/groups
\* Group.findOne({name}) resolves: 400, or on to Group.create.
CreateGroupFind(userId, name) ==
    /\ InFlight(userId, "createGroup") = {}
    /\ IF \E g \in Stored(groups) : groups[g].name = name
       THEN /\ res' = Response(userId, "createGroup", 400, <<>>)
            /\ UNCHANGED grouping
       ELSE /\ grouping' = grouping \cup
                  {Suspended("createGroup", userId, 0, "create",
                             NewGroup(name, userId), 0, name)}
            /\ res' = NoResponse
    /\ out' = {}
    /\ UNCHANGED <<groups, posts, comments, chatVars, eventVars, authVars>>

\* Group.create resolves; Group.findById and the answer follow.
CreateGroupCreate(r) ==
    /\ r \in grouping
    /\ r.op = "createGroup"
    /\ Len(groups) < MaxGroups
    /\ groups' = Append(groups, r.loaded)
    /\ grouping' = grouping \ {r}
    /\ res' = Response(r.userId, "createGroup", 201, <<r.loaded>>)
    /\ out' = {}
    /\ UNCHANGED <<posts, comments, chatVars, eventVars, authVars>>

\* ------------------------------------------------- PUT /api/groups/:id
\* Group.findById resolves: 404, 403 for a user who is no admin, or on to
\* group.save() with name || group.name.
UpdateGroupFind(userId, id, name) ==
    /\ InFlight(userId, "updateGroup") = {}
    /\ IF id \notin Stored(groups)
       THEN /\ res' = Response(userId, "updateGroup", 404, <<>>)
            /\ UNCHANGED grouping
       ELSE IF userId \notin groups[id].admins
       THEN /\ res' = Response(userId, "updateGroup", 403, <<>>)
            /\ UNCHANGED grouping
       ELSE /\ grouping' = grouping \cup
                  {Suspended("updateGroup", userId, id, "save", groups[id], id,
                             IF Falsy(name) THEN groups[id].name ELSE name)}
            /\ res' = NoResponse
    /\ out' = {}
    /\ UNCHANGED <<groups, posts, comments, chatVars, eventVars, authVars>>

\* ----------------------------------------------- POST /api/groups/:id/join
\* Group.findById resolves: 404, 400 for a member, or on to group.save().
JoinFind(userId, id) ==
    /\ InFlight(userId, "join") = {}
    /\ IF id \notin Stored(groups)
       THEN /\ res' = Response(userId, "join", 404, <<>>)
            /\ UNCHANGED grouping
       ELSE IF userId \in groups[id].members
       THEN /\ res' = Response(userId, "join", 400, <<>>)
            /\ UNCHANGED grouping
       ELSE /\ grouping' = grouping \cup
                  {Suspended("join", userId, id, "save", groups[id], id, "")}
            /\ res' = NoResponse
    /\ out' = {}
    /\ UNCHANGED <<groups, posts, comments, chatVars, eventVars, authVars>>

\* A leave that lets the creator go.
LeaveFindAnyone(userId, id) ==
    /\ InFlight(userId, "leave") = {}
    /\ IF id \notin Stored(groups)
       THEN /\ res' = Response(userId, "leave", 404, <<>>)
            /\ UNCHANGED grouping
       ELSE /\ grouping' = grouping \cup
                  {Suspended("leave", userId, id, "save", groups[id], id, "")}
            /\ res' = NoResponse
    /\ out' = {}
    /\ UNCHANGED <<groups, posts, comments, chatVars, eventVars, authVars>>

\* ---------------------------------------------- POST /api/groups/:id/leave
\* Group.findById resolves: 404, 400 for the creator, or on to group.save().
LeaveFind(userId, id) ==
    /\ InFlight(userId, "leave") = {}
    /\ IF id \notin Stored(groups)
       THEN /\ res' = Response(userId, "leave", 404, <<>>)
            /\ UNCHANGED grouping
       ELSE IF groups[id].creator = userId
       THEN /\ res' = Response(userId, "leave", 400, <<>>)
            /\ UNCHANGED grouping
       ELSE /\ grouping' = grouping \cup
                  {Suspended("leave", userId, id, "save", groups[id], id, "")}
            /\ res' = NoResponse
    /\ out' = {}
    /\ UNCHANGED <<groups, posts, comments, chatVars, eventVars, authVars>>

\* group.save() of the update, join and leave routes.
MemberSave(r) ==
    /\ r \in grouping
    /\ r.op \in {"updateGroup", "join", "leave"}
    /\ GroupSave(r, 200)
    /\ out' = {}
    /\ UNCHANGED <<posts, comments, chatVars, eventVars, authVars>>

\* ------------------------------------------------- DELETE /api/groups/:id
\* Group.findById resolves: 404, 403, or the handler goes on to Post.find.
DeleteGroupFind(userId, id) ==
    /\ InFlight(userId, "deleteGroup") = {}
    /\ IF id \notin Stored(groups)
       THEN /\ res' = Response(userId, "deleteGroup", 404, <<>>)
            /\ UNCHANGED grouping
       ELSE IF groups[id].creator # userId
       THEN /\ res' = Response(userId, "deleteGroup", 403, <<>>)
            /\ UNCHANGED grouping
       ELSE /\ grouping' = grouping \cup
                  {Suspended("deleteGroup", userId, id, "Post.find", groups[id], id, "")}
            /\ res' = NoResponse
    /\ out' = {}
    /\ UNCHANGED <<groups, posts, comments, chatVars, eventVars, authVars>>

\* Each await of the cascade resolves in turn: Post.find, Comment.deleteMany,
\* Post.deleteMany, group.deleteOne and the answer.
DeleteGroupStep(r) ==
    /\ r \in grouping
    /\ r.op = "deleteGroup"
    /\ \/ /\ r.pc = "Post.find"
          /\ grouping' = (grouping \ {r}) \cup
                {[r EXCEPT !.postIds = {p \in Stored(posts) : posts[p].group = r.id},
                           !.pc = "Comment.deleteMany"]}
          /\ res' = NoResponse
          /\ UNCHANGED <<groups, posts, comments>>
       \/ /\ r.pc = "Comment.deleteMany"
          /\ comments' = Remove(comments,
                                {c \in Stored(comments) : comments[c].post \in r.postIds})
          /\ grouping' = (grouping \ {r}) \cup {[r EXCEPT !.pc = "Post.deleteMany"]}
          /\ res' = NoResponse
          /\ UNCHANGED <<groups, posts>>
       \/ /\ r.pc = "Post.deleteMany"
          /\ posts' = Remove(posts, {p \in Stored(posts) : posts[p].group = r.id})
          /\ grouping' = (grouping \ {r}) \cup {[r EXCEPT !.pc = "deleteOne"]}
          /\ res' = NoResponse
          /\ UNCHANGED <<groups, comments>>
       \/ /\ r.pc = "deleteOne"
          /\ groups' = Remove(groups, {r.id})
          /\ grouping' = grouping \ {r}
          /\ res' = Response(r.userId, "deleteGroup", 200, <<>>)
          /\ UNCHANGED <<posts, comments>>
    /\ out' = {}
    /\ UNCHANGED <<chatVars, eventVars, authVars>>

\* ---------------------------------------------- POST /api/groups/:id/posts
\* Group.findById resolves: 404, 403 for a non-member, or on to Post.create
\* with the group document in memory.
PostFind(userId, id) ==
    /\ InFlight(userId, "createPost") = {}
    /\ IF id \notin Stored(groups)
       THEN /\ res' = Response(userId, "createPost", 404, <<>>)
            /\ UNCHANGED grouping
       ELSE IF userId \notin groups[id].members
       THEN /\ res' = Response(userId, "createPost", 403, <<>>)
            /\ UNCHANGED grouping
       ELSE /\ grouping' = grouping \cup
                  {Suspended("createPost", userId, id, "create", groups[id], id, "")}
            /\ res' = NoResponse
    /\ out' = {}
    /\ UNCHANGED <<groups, posts, comments, chatVars, eventVars, authVars>>

\* Post.create resolves, or rejects with a ValidationError (400).
PostCreate(r, content) ==
    /\ r \in grouping
    /\ r.op = "createPost" /\ r.pc = "create"
    /\ IF content = Absent
       THEN /\ grouping' = grouping \ {r}
            /\ res' = Response(r.userId, "createPost", 400, <<>>)
            /\ UNCHANGED posts
       ELSE /\ Len(posts) < MaxPosts
            /\ posts' = Append(posts, NewPost(r.id, r.userId))
            /\ grouping' = (grouping \ {r}) \cup
                  {[r EXCEPT !.postIds = {Len(posts) + 1}, !.pc = "save"]}
            /\ res' = NoResponse
    /\ out' = {}
    /\ UNCHANGED <<groups, comments, chatVars, eventVars, authVars>>

\* group.save() writes postCount, or rejects when the group document is gone
\* (500); Post.findById and the answer follow.
PostSave(r) ==
    /\ r \in grouping
    /\ r.op = "createPost" /\ r.pc = "save"
    /\ GroupSave(r, 201)
    /\ out' = {}
    /\ UNCHANGED <<posts, comments, chatVars, eventVars, authVars>>

\* ------------------------------------- DELETE /api/groups/posts/:postId
\* Post.findById and Group.findById resolve: 404, 500 when the group is
\* gone (group.admins of null), 403, or on to Comment.deleteMany.
DeletePostFind(userId, postId) ==
    /\ InFlight(userId, "deletePost") = {}
    /\ IF postId \notin Stored(posts)
       THEN /\ res' = Response(userId, "deletePost", 404, <<>>)
            /\ UNCHANGED grouping
       ELSE IF posts[postId].group \notin Stored(groups)
       THEN /\ res' = Response(userId, "deletePost", 500, <<>>)
            /\ UNCHANGED grouping
       ELSE IF posts[postId].author # userId
               /\ userId \notin groups[posts[postId].group].admins
       THEN /\ res' = Response(userId, "deletePost", 403, <<>>)
            /\ UNCHANGED grouping
       ELSE /\ grouping' = grouping \cup
                  {Suspended("deletePost", userId, postId, "Comment.deleteMany",
                             groups[posts[postId].group], posts[postId].group, "")}
            /\ res' = NoResponse
    /\ out' = {}
    /\ UNCHANGED <<groups, posts, comments, chatVars, eventVars, authVars>>

\* Comment.deleteMany, post.deleteOne, then group.save() with the count.
DeletePostStep(r) ==
    /\ r \in grouping
    /\ r.op = "deletePost"
    /\ \/ /\ r.pc = "Comment.deleteMany"
          /\ comments' = Remove(comments,
                                {c \in Stored(comments) : comments[c].post = r.id})
          /\ grouping' = (grouping \ {r}) \cup {[r EXCEPT !.pc = "deleteOne"]}
          /\ res' = NoResponse
          /\ UNCHANGED <<groups, posts>>
       \/ /\ r.pc = "deleteOne"
          /\ posts' = Remove(posts, {r.id})
          /\ grouping' = (grouping \ {r}) \cup {[r EXCEPT !.pc = "save"]}
          /\ res' = NoResponse
          /\ UNCHANGED <<groups, comments>>
       \/ /\ r.pc = "save"
          /\ GroupSave(r, 200)
          /\ UNCHANGED <<posts, comments>>
    /\ out' = {}
    /\ UNCHANGED <<chatVars, eventVars, authVars>>

\* ----------------------------------- POST /api/groups/posts/:postId/like
\* Post.findById resolves: 404, or on to post.save() with the user pushed
\* to likes or spliced out of it.
LikeFind(userId, postId) ==
    /\ InFlight(userId, "like") = {}
    /\ IF postId \notin Stored(posts)
       THEN /\ res' = Response(userId, "like", 404, <<>>)
            /\ UNCHANGED grouping
       ELSE /\ grouping' = grouping \cup
                  {Suspended("like", userId, postId, "save", posts[postId], postId, "")}
            /\ res' = NoResponse
    /\ out' = {}
    /\ UNCHANGED <<groups, posts, comments, chatVars, eventVars, authVars>>

LikeSave(r) ==
    /\ r \in grouping
    /\ r.op = "like"
    /\ PostDocSave(r, 200)
    /\ out' = {}
    /\ UNCHANGED <<groups, comments, chatVars, eventVars, authVars>>

\* ------------------------------- POST /api/groups/posts/:postId/comments
CommentFind(userId, postId) ==
    /\ InFlight(userId, "createComment") = {}
    /\ IF postId \notin Stored(posts)
       THEN /\ res' = Response(userId, "createComment", 404, <<>>)
            /\ UNCHANGED grouping
       ELSE /\ grouping' = grouping \cup
                  {Suspended("createComment", userId, postId, "create",
                             posts[postId], postId, "")}
            /\ res' = NoResponse
    /\ out' = {}
    /\ UNCHANGED <<groups, posts, comments, chatVars, eventVars, authVars>>

CommentCreate(r, content) ==
    /\ r \in grouping
    /\ r.op = "createComment" /\ r.pc = "create"
    /\ IF content = Absent
       THEN /\ grouping' = grouping \ {r}
            /\ res' = Response(r.userId, "createComment", 400, <<>>)
            /\ UNCHANGED comments
       ELSE /\ Len(comments) < MaxComments
            /\ comments' = Append(comments, [post |-> r.id, author |-> r.userId,
                                             stored |-> TRUE])
            /\ grouping' = (grouping \ {r}) \cup {[r EXCEPT !.pc = "save"]}
            /\ res' = NoResponse
    /\ out' = {}
    /\ UNCHANGED <<groups, posts, chatVars, eventVars, authVars>>

\* post.save() writes commentCount, or rejects when the post is gone (500).
CommentSave(r) ==
    /\ r \in grouping
    /\ r.op = "createComment" /\ r.pc = "save"
    /\ PostDocSave(r, 201)
    /\ out' = {}
    /\ UNCHANGED <<groups, comments, chatVars, eventVars, authVars>>

\* ------------------------------- DELETE /api/groups/comments/:commentId
\* Comment.findById, Post.findById and Group.findById resolve: 404, 500
\* when the post or the group is gone, 403, or on to comment.deleteOne.
DeleteCommentFind(userId, commentId) ==
    /\ InFlight(userId, "deleteComment") = {}
    /\ IF commentId \notin Stored(comments)
       THEN /\ res' = Response(userId, "deleteComment", 404, <<>>)
            /\ UNCHANGED grouping
       ELSE IF \/ comments[commentId].post \notin Stored(posts)
               \/ posts[comments[commentId].post].group \notin Stored(groups)
       THEN /\ res' = Response(userId, "deleteComment", 500, <<>>)
            /\ UNCHANGED grouping
       ELSE IF /\ comments[commentId].author # userId
               /\ userId \notin groups[posts[comments[commentId].post].group].admins
       THEN /\ res' = Response(userId, "deleteComment", 403, <<>>)
            /\ UNCHANGED grouping
       ELSE /\ grouping' = grouping \cup
                  {Suspended("deleteComment", userId, commentId, "deleteOne",
                             posts[comments[commentId].post],
                             comments[commentId].post, "")}
            /\ res' = NoResponse
    /\ out' = {}
    /\ UNCHANGED <<groups, posts, comments, chatVars, eventVars, authVars>>

\* comment.deleteOne, then post.save() with the count.
DeleteCommentStep(r) ==
    /\ r \in grouping
    /\ r.op = "deleteComment"
    /\ \/ /\ r.pc = "deleteOne"
          /\ comments' = Remove(comments, {r.id})
          /\ grouping' = (grouping \ {r}) \cup {[r EXCEPT !.pc = "save"]}
          /\ res' = NoResponse
          /\ UNCHANGED posts
       \/ /\ r.pc = "save"
          /\ PostDocSave(r, 200)
          /\ UNCHANGED comments
    /\ out' = {}
    /\ UNCHANGED <<groups, chatVars, eventVars, authVars>>

GroupIds == 1..MaxGroups
PostIds == 1..MaxPosts
CommentIds == 1..MaxComments

\* Groups with their posts and comments: create, delete, post, comment.
Cascade ==
    \/ \E u \in Users, g \in GroupIds : DeleteGroupFind(u, g)
    \/ \E r \in grouping : DeleteGroupStep(r)
    \/ \E u \in Users, g \in GroupIds : PostFind(u, g)
    \/ \E r \in grouping, c \in Contents : PostCreate(r, c)
    \/ \E r \in grouping : PostSave(r)
    \/ \E u \in Users, p \in PostIds : CommentFind(u, p)
    \/ \E r \in grouping, c \in Contents : CommentCreate(r, c)
    \/ \E r \in grouping : CommentSave(r)

\* Creation, renaming and membership of groups.
Membership ==
    \/ \E u \in Users, n \in GroupNames : CreateGroupFind(u, n)
    \/ \E r \in grouping : CreateGroupCreate(r)
    \/ \E u \in Users, g \in GroupIds, n \in GroupNames \cup {Absent} :
         UpdateGroupFind(u, g, n)
    \/ \E u \in Users, g \in GroupIds : JoinFind(u, g)
    \/ \E u \in Users, g \in GroupIds : LeaveFind(u, g)
    \/ \E r \in grouping : MemberSave(r)

\* Deletion of posts and comments, and likes.
Children ==
    \/ \E u \in Users, p \in PostIds : DeletePostFind(u, p)
    \/ \E r \in grouping : DeletePostStep(r)
    \/ \E u \in Users, c \in CommentIds : DeleteCommentFind(u, c)
    \/ \E r \in grouping : DeleteCommentStep(r)
    \/ \E u \in Users, p \in PostIds : LikeFind(u, p)
    \/ \E r \in grouping : LikeSave(r)

Groups == Cascade \/ Membership \/ Children

\* ============================================== GET /recommendations
\* [...savedEventIds, ...attendingEventIds]
UserEventIds(userId) ==
    userDocs[userId].savedEvents \cup userDocs[userId].eventsAttending

\* Group.find({members: req.user.id})
UserGroupIds(userId) == {g \in Stored(groups) : userId \in groups[g].members}

\* User.find({_id: {$ne}, $or: [{savedEvents: {$in}}, {eventsAttending: {$in}}]}),
\* run only when the requester has an event.
SharedEventUsers(userId) ==
    IF UserEventIds(userId) = {} THEN {}
    ELSE {c \in DOMAIN userDocs \ {userId} :
             UserEventIds(c) \cap UserEventIds(userId) # {}}

\* The members of one of the requester's groups, populated with the match
\* {_id: {$ne: req.user.id}}.
GroupMembers(userId, g) == groups[g].members \ {userId}

\* User.find({_id: {$ne}, isActive: true})
ActiveUsers(userId) == {c \in DOMAIN userDocs \ {userId} : userDocs[c].isActive}

\* recommendedUsers once the fallback has or has not run: groupUsers is the
\* list of the requester's groups.
RecommendedUsers(userId) ==
    IF SharedEventUsers(userId) = {} /\ UserGroupIds(userId) = {}
    THEN ActiveUsers(userId)
    ELSE SharedEventUsers(userId)

\* userScores: 1 for a user of recommendedUsers, 2 for each of the
\* requester's groups that has the user among its members.
Score(userId, c) ==
    (IF c \in RecommendedUsers(userId) THEN 1 ELSE 0)
    + 2 * Cardinality({g \in UserGroupIds(userId) : c \in GroupMembers(userId, g)})

Scored(userId) == {c \in DOMAIN userDocs : Score(userId, c) > 0}

\* sort((a, b) => b.score - a.score): the scored users, higher scores first;
\* users of equal score in the order the queries returned them.
SortedUsers(userId) ==
    {q \in Orderings(Scored(userId)) :
        \A i, j \in 1..Len(q) : i < j => Score(userId, q[i]) >= Score(userId, q[j])}

Recommendations(userId) ==
    /\ \E q \in SortedUsers(userId) :
         res' = Response(userId, "recommendations", 200,
                         [i \in 1..Len(q) |-> [_id |-> q[i]]])
    /\ out' = {}
    /\ UNCHANGED <<chatVars, eventVars, groupVars, authVars>>

\* ------------------------------------------- POST /api/events/:id/save
ToggleSave(userId, id) ==
    /\ IF id \notin Stored(events)
       THEN /\ res' = Response(userId, "save", 404, <<>>)
            /\ UNCHANGED userDocs
       ELSE /\ userDocs' = [userDocs EXCEPT ![userId].savedEvents =
                              IF id \in @ THEN @ \ {id} ELSE @ \cup {id}]
            /\ res' = Response(userId, "save", 200, <<>>)
    /\ out' = {}
    /\ UNCHANGED <<events, attending, chatVars, groupVars, authVars>>

Recommends ==
    \/ \E u \in Users : Recommendations(u)
    \/ \E u \in Users, e \in EventIds : ToggleSave(u, e)

\* ================================================================ accounts
\* ------------------------------------------------- user documents, select
\* The ids the users collection hands out, in order.
UserIdSeq == <<"u1", "u2", "u3", "u4">>
NewUserId == UserIdSeq[Cardinality(DOMAIN accounts) + 1]

\* One document of the users collection, every path of the schema the
\* routes read.
UserDoc(u) ==
    [_id |-> u, name |-> accounts[u].name, email |-> accounts[u].email,
     password |-> accounts[u].password, isActive |-> userDocs[u].isActive,
     eventsCreated |-> userDocs[u].eventsCreated,
     eventsAttending |-> userDocs[u].eventsAttending,
     savedEvents |-> userDocs[u].savedEvents]

Restrict(doc, fields) == [f \in DOMAIN doc \cap fields |-> doc[f]]

\* The paths declared select: false in userSchema.
Unselected == {"password"}

\* What a query hands back for a document.  No select(), or select("-password"):
\* every path but the select: false ones.  select("+password"): those as
\* well.  select("name email ..."): the listed paths and _id.
SelectDefault(doc) == Restrict(doc, DOMAIN doc \ Unselected)
SelectPlus(doc, fields) == Restrict(doc, (DOMAIN doc \ Unselected) \cup fields)
SelectOnly(doc, fields) == Restrict(doc, fields \cup {"_id"})

\* A profile that copies the stored password with the rest.
toPublicProfileWithPassword(doc) ==
    [_id |-> doc._id, id |-> doc._id, name |-> doc.name, email |-> doc.email,
     eventsCreated |-> doc.eventsCreated, eventsAttending |-> doc.eventsAttending,
     savedEvents |-> doc.savedEvents, password |-> doc.password]

\* userSchema.methods.toPublicProfile
toPublicProfile(doc) ==
    [_id |-> doc._id, id |-> doc._id, name |-> doc.name, email |-> doc.email,
     eventsCreated |-> doc.eventsCreated, eventsAttending |-> doc.eventsAttending,
     savedEvents |-> doc.savedEvents]

\* populate(path, "name avatar") and populate(path, "name email avatar") of a
\* reference to a user: null when no user has the id.
PopulateUser(id, fields) ==
    IF id \in DOMAIN accounts THEN {SelectOnly(UserDoc(id), fields)} ELSE {}

\* ------------------------------------------------------------------ tokens
\* A bearer token as jwt.verify sees it: empty (nothing after "Bearer"),
\* malformed, or a JWT that names an id, is signed with the server's secret
\* or not, and has expired or not.
Token(kind, id, signed, expired) ==
    [kind |-> kind, id |-> id, signed |-> signed, expired |-> expired]
EmptyToken == Token("empty", Absent, FALSE, FALSE)
MalformedToken == Token("malformed", Absent, FALSE, FALSE)
generateToken(userId) == Token("jwt", userId, TRUE, FALSE)

\* jwt.verify(token, JWT_SECRET) returns the payload; it throws otherwise.
Verifies(token) == token.kind = "jwt" /\ token.signed /\ ~token.expired

\* The Authorization header: none, another scheme, or "Bearer" followed by
\* the token split(" ")[1] takes from it.
Header(scheme, token) == [scheme |-> scheme, token |-> token]
NoHeader == Header("none", EmptyToken)

\* One res.status(..).json(..) call: the status, who sent it, and the user
\* objects in the body.
Sent(status, by, users) == [status |-> status, by |-> by, users |-> users]

\* --------------------------------------------------------------- protect
\* What a run of the middleware does: the responses it sends, whether it
\* calls next(), and req.user.
Outcome(returned, sent, next, user) ==
    [returned |-> returned, sent |-> sent, next |-> next, user |-> user]
Unauthorized == <<Sent(401, "protect", {})>>

\* A try block whose catch sends 401 and does not return.
TryProtectFallsThrough(header) ==
    IF ~Verifies(header.token)
    THEN Outcome(FALSE, Unauthorized, FALSE, Absent)
    ELSE IF header.token.id \notin DOMAIN accounts
    THEN Outcome(TRUE, Unauthorized, FALSE, Absent)
    ELSE IF ~userDocs[header.token.id].isActive
    THEN Outcome(TRUE, Unauthorized, FALSE, Absent)
    ELSE Outcome(FALSE, <<>>, TRUE, header.token.id)

\* The try block: verify, findById, the two checks, next(); the catch
\* answers 401 and returns.
TryProtect(header) ==
    IF ~Verifies(header.token)
    THEN Outcome(TRUE, Unauthorized, FALSE, Absent)
    ELSE IF header.token.id \notin DOMAIN accounts
    THEN Outcome(TRUE, Unauthorized, FALSE, Absent)
    ELSE IF ~userDocs[header.token.id].isActive
    THEN Outcome(TRUE, Unauthorized, FALSE, Absent)
    ELSE Outcome(FALSE, <<>>, TRUE, header.token.id)

\* protect: the try block when the header starts with "Bearer", then the
\* final test of the token variable, which is still undefined when the
\* header did not, and falsy when nothing followed "Bearer".
Protect(header) ==
    LET bearer == header.scheme = "Bearer"
        try == IF bearer THEN TryProtect(header)
               ELSE Outcome(FALSE, <<>>, FALSE, Absent)
        token == IF bearer THEN header.token ELSE EmptyToken
    IN  IF ~try.returned /\ token.kind = "empty"
        THEN [try EXCEPT !.sent = try.sent \o Unauthorized]
        ELSE try

LastStatus(sent) == IF sent = <<>> THEN 0 ELSE sent[Len(sent)].status

\* The response of a route behind protect: what the middleware sent, then
\* what the handler sent when next() called it.
Guarded(p, op, handled) ==
    LET sent == p.sent \o (IF p.next THEN handled ELSE <<>>)
    IN  Response(p.user, op, LastStatus(sent), sent)
Handled(status, users) == <<Sent(status, "handler", users)>>
Public(op, status, users) ==
    Response(Absent, op, status, Handled(status, users))

\* ------------------------------------------------ POST /api/auth/register
\* A password shorter than the schema's minlength fails validation in
\* User.create.  The handler is taken as one step.
ShortPassword == "abc"
RegisterUser(name, email, password) ==
    /\ IF Falsy(name) \/ Falsy(email) \/ Falsy(password)
       THEN /\ res' = Public("register", 400, {})
            /\ UNCHANGED <<accounts, userDocs>>
       ELSE IF \E u \in DOMAIN accounts : accounts[u].email = email
       THEN /\ res' = Public("register", 400, {})
            /\ UNCHANGED <<accounts, userDocs>>
       ELSE IF password = ShortPassword
       THEN /\ res' = Public("register", 500, {})
            /\ UNCHANGED <<accounts, userDocs>>
       ELSE /\ Cardinality(DOMAIN accounts) < MaxUsers
            /\ accounts' = [u \in DOMAIN accounts \cup {NewUserId} |->
                              IF u = NewUserId
                              THEN [name |-> name, email |-> email,
                                    password |-> Hash(password)]
                              ELSE accounts[u]]
            /\ userDocs' = [u \in DOMAIN accounts \cup {NewUserId} |->
                              IF u = NewUserId THEN NoLists ELSE userDocs[u]]
            /\ res' = Public("register", 201,
                    {toPublicProfile([_id |-> NewUserId, name |-> name,
                        email |-> email, password |-> Hash(password),
                        isActive |-> TRUE, eventsCreated |-> {},
                        eventsAttending |-> {}, savedEvents |-> {}])})
    /\ out' = {}
    /\ UNCHANGED <<events, attending, chatVars, groupVars>>

\* --------------------------------------------------- POST /api/auth/login
Login(email, password) ==
    /\ IF Falsy(email) \/ Falsy(password)
       THEN res' = Public("login", 400, {})
       ELSE IF ~\E u \in DOMAIN accounts : accounts[u].email = email
       THEN res' = Public("login", 401, {})
       ELSE LET u == CHOOSE v \in DOMAIN accounts : accounts[v].email = email
                user == SelectPlus(UserDoc(u), {"password"})
            IN  IF ~user.isActive
                THEN res' = Public("login", 401, {})
                ELSE IF Hash(password) # user.password
                THEN res' = Public("login", 401, {})
                ELSE res' = Response(u, "login", 200,
                                Handled(200, {toPublicProfile(user)}))
    /\ out' = {}
    /\ UNCHANGED <<eventVars, chatVars, groupVars, authVars>>

\* ------------------------------------------------------ GET /api/auth/me
Me(header) ==
    /\ LET p == Protect(header)
       IN  res' = Guarded(p, "me", Handled(200,
                      {toPublicProfile(SelectDefault(UserDoc(p.user)))}))
    /\ out' = {}
    /\ UNCHANGED <<eventVars, chatVars, groupVars, authVars>>

\* ------------------------------------------- PUT /api/auth/updateprofile
UpdateProfile(header, name) ==
    /\ LET p == Protect(header)
           named == IF p.next /\ ~Falsy(name)
                    THEN [accounts EXCEPT ![p.user].name = name]
                    ELSE accounts
       IN  /\ accounts' = named
           /\ res' = Guarded(p, "updateprofile", Handled(200,
                 {toPublicProfile(SelectDefault(
                     [UserDoc(p.user) EXCEPT !.name = named[p.user].name]))}))
    /\ out' = {}
    /\ UNCHANGED <<eventVars, chatVars, groupVars>>

\* ------------------------------------------ PUT /api/auth/changepassword
ChangePassword(header, currentPassword, newPassword) ==
    /\ LET p == Protect(header)
           ok == /\ p.next
                 /\ ~Falsy(currentPassword) /\ ~Falsy(newPassword)
                 /\ Hash(currentPassword) =
                      SelectPlus(UserDoc(p.user), {"password"}).password
       IN  /\ accounts' = IF ok /\ newPassword # ShortPassword
                          THEN [accounts EXCEPT ![p.user].password = Hash(newPassword)]
                          ELSE accounts
           /\ res' = Guarded(p, "changepassword",
                 Handled(IF Falsy(currentPassword) \/ Falsy(newPassword) THEN 400
                         ELSE IF ~ok THEN 401
                         ELSE IF newPassword = ShortPassword THEN 500
                         ELSE 200, {}))
    /\ out' = {}
    /\ UNCHANGED <<eventVars, chatVars, groupVars>>

\* ------------------------------------------------ GET /api/auth/user/:id
PublicProfile(id) ==
    /\ res' = IF id \notin DOMAIN accounts
              THEN Public("user", 404, {})
              ELSE Public("user", 200, {toPublicProfile(SelectDefault(UserDoc(id)))})
    /\ out' = {}
    /\ UNCHANGED <<eventVars, chatVars, groupVars, authVars>>

\* ------------------------------------------ POST /api/users/upload-avatar
\* With a file in the request: findByIdAndUpdate(..).select("-password"),
\* and the document itself in the body.
UploadAvatar(header) ==
    /\ LET p == Protect(header)
       IN  res' = Guarded(p, "upload-avatar",
                      Handled(200, {SelectDefault(UserDoc(p.user))}))
    /\ out' = {}
    /\ UNCHANGED <<eventVars, chatVars, groupVars, authVars>>

\* ---------------------------------------------- GET /api/chat/search-users
\* $regex with option i on name and email: the query is found in the text.
Contains(text, query) ==
    <<text, query>> \in {<<"John", "jo">>, <<"john@x", "jo">>,
                         <<"john@x", "x">>, <<"maria@x", "x">>,
                         <<"alex@x", "x">>, <<"ann@x", "x">>, <<"Alex", "x">>}
SearchUsers(header, query) ==
    /\ LET p == Protect(header)
           found == {u \in DOMAIN accounts \ {p.user} :
                        \/ Contains(accounts[u].name, query)
                        \/ Contains(accounts[u].email, query)}
       IN  res' = Guarded(p, "search-users",
                     IF Falsy(query) THEN Handled(400, {})
                     ELSE Handled(200, {SelectOnly(UserDoc(u), {"name", "email"}) :
                                           u \in found}))
    /\ out' = {}
    /\ UNCHANGED <<eventVars, chatVars, groupVars, authVars>>

\* ------------------------------------------------- GET /api/users/:userId
Profile(header, userId) ==
    /\ LET p == Protect(header)
       IN  res' = Guarded(p, "profile",
                     IF userId \notin DOMAIN accounts THEN Handled(404, {})
                     ELSE Handled(200, {SelectOnly(UserDoc(userId),
                             {"name", "email", "savedEvents", "eventsAttending"})}))
    /\ out' = {}
    /\ UNCHANGED <<eventVars, chatVars, groupVars, authVars>>

\* ------------------------------------------------------ GET /api/groups/:id
\* The group with creator, admins and members populated by
\* "name email avatar".
GroupDetail(id) ==
    /\ res' = IF id \notin Stored(groups)
              THEN Public("group", 404, {})
              ELSE Public("group", 200,
                     UNION {PopulateUser(u, {"name", "email"}) :
                              u \in groups[id].members \cup {groups[id].creator}})
    /\ out' = {}
    /\ UNCHANGED <<eventVars, chatVars, groupVars, authVars>>

\* The requests clients send: no header, another scheme, and "Bearer" with
\* nothing, with a malformed token, with a token of the server for every id,
\* and with a forged and an expired token for u1.
Tokens ==
    {EmptyToken, MalformedToken,
     Token("jwt", "u1", FALSE, FALSE), Token("jwt", "u1", TRUE, TRUE)}
    \cup {generateToken(u) : u \in {UserIdSeq[i] : i \in 1..MaxUsers} \cup {"u9"}}
Headers ==
    {NoHeader, Header("Basic", generateToken("u1"))}
    \cup {Header("Bearer", t) : t \in Tokens}
BodyNames == {"Ann", Absent}
BodyEmails == {"john@x", "ann@x", Absent}
BodyPasswords == {"secret99", ShortPassword, Absent}
\* Headers of u1, of u2 and of nobody, for the routes behind the middleware.
Bearers == {NoHeader} \cup {Header("Bearer", generateToken(u)) : u \in Users}
Queries == {"jo", "x", Absent}

Accounts ==
    \/ \E n \in BodyNames, e \in BodyEmails, p \in BodyPasswords : RegisterUser(n, e, p)
    \/ \E e \in BodyEmails, p \in BodyPasswords \cup {SeedPassword} : Login(e, p)
    \/ \E h \in Headers : Me(h)
    \/ \E h \in Bearers, n \in BodyNames : UpdateProfile(h, n)
    \/ \E h \in Bearers, c \in BodyPasswords \cup {SeedPassword}, n \in BodyPasswords :
         ChangePassword(h, c, n)
    \/ \E u \in ObjectIds : PublicProfile(u)
    \/ \E h \in Bearers : UploadAvatar(h)
    \/ \E h \in Bearers, q \in Queries : SearchUsers(h, q)
    \/ \E h \in Bearers, u \in ObjectIds : Profile(h, u)
    \/ \E g \in 1..MaxGroups : GroupDetail(g)

\* ------------------------------------------------------------------- Next
MessageIds == 1..MaxMessages
PayloadIds == ObjectIds \cup {Absent}
PayloadBodies == Bodies \cup {Absent}

Presence(ids) ==
    \/ \E c \in SocketIds : Connect(c)
    \/ \E c \in SocketIds, u \in ids : Register(c, u)
    \/ \E c \in SocketIds : Disconnect(c)

Sends(payloads, stamps) ==
    \/ \E c \in SocketIds, p \in payloads :
         \/ SendMessageInvalid(c, p[1], p[2], p[3])
         \/ SendMessageCreateFails(c, p[1], p[2], p[3])
         \/ \E t \in stamps : SendMessage(c, p[1], p[2], p[3], t)
    \/ \E p \in sending : SendPopulateFails(p) \/ SendDeliver(p)

Receipts ==
    \/ \E c \in SocketIds, ids \in SUBSET MessageIds, u \in ObjectIds :
         MarkAsRead(c, ids, u)
    \/ \E c \in SocketIds : MarkAsReadFails(c)

Histories(readers, receivers) ==
    \/ \E u \in readers, o \in ObjectIds : HistoryFind(u, o)
    \/ \E r \in reading : HistoryUpdate(r) \/ HistoryRespond(r) \/ HistoryFails(r)
    \/ \E u \in Users, r \in receivers, b \in PayloadBodies, t \in Timestamps :
         RestSend(u, r, b, t)
    \/ \E u \in Users, m \in MessageIds : Delete(u, m)

Chat == Histories(Users, PayloadIds) \/ \E u \in Users : Conversations(u)

Next == Presence(ObjectIds) \/ Sends(PayloadIds \X PayloadIds \X PayloadBodies, Timestamps) \/ Receipts \/ Chat \/ Events \/ Groups \/ Recommends \/ Accounts \/ EventDeletes

Spec == Init /\ [][Next]_vars

\* The presence registry alone: connections, registrations, disconnects.
NextPresence == Presence(ObjectIds)
SpecPresence == Init /\ [][NextPresence]_vars

\* The message relay: the registry and sendMessage.  The relay reads the
\* payload for what is absent and for the receiver, so one sender and one
\* receiver are enough; u2 is registered or not as the registry goes.
RelayPayloads ==
    {<<"u1", "u2", " hi ">>, <<"u1", "u2", "  ">>,
     <<Absent, "u2", " hi ">>, <<"u1", Absent, " hi ">>, <<"u1", "u2", Absent>>,
     <<Absent, Absent, Absent>>}
NextRelay == Presence(Users) \/ Sends(RelayPayloads, LaterTimestamp)
SpecRelay == Init /\ [][NextRelay]_vars

\* Read receipts: registered connections, stored messages, markAsRead.
NextReceipts ==
    \/ Presence(Users)
    \/ \E u, r \in Users, t \in LaterTimestamp : RestSend(u, r, " hi ", t)
    \/ Receipts
SpecReceipts == Init /\ [][NextReceipts]_vars

\* The chat REST routes, with receivers that name no user; u1 reads.
NextChat == Histories({"u1"}, PayloadIds) \/ \E u \in Users : Conversations(u)
SpecChat == Init /\ [][NextChat]_vars

\* The chat REST routes that write: send, history, delete.
NextHistory == Histories({"u1"}, Users \cup {Absent})
SpecHistory == Init /\ [][NextHistory]_vars

\* Every writer of the read flag: the realtime send and markAsRead of one
\* connection, and the REST history, send and delete.
NextFlags ==
    \/ Connect(1)
    \/ nextId = 1 /\ \E t \in LaterTimestamp : SendMessage(1, "u1", "u2", " hi ", t)
    \/ \E p \in sending : SendDeliver(p)
    \/ \E ids \in SUBSET MessageIds : MarkAsRead(1, ids, "u2")
    \/ HistoryFind("u2", "u1")
    \/ \E r \in reading : HistoryUpdate(r) \/ HistoryRespond(r)
    \/ \E t \in LaterTimestamp : RestSend("u1", "u2", " hi ", t)
    \/ \E m \in MessageIds : Delete("u1", m)
SpecFlags == Init /\ [][NextFlags]_vars

\* The event routes: create, update, attend, status.
NextEvents == Events
SpecEvents == Init /\ [][NextEvents]_vars

\* Creation and attendance alone: u1 creates, nobody edits an event.
NextAttends ==
    \/ \E n \in Capacities : CreateEvent("u1", TRUE, n)
    \/ Attendance
SpecAttends == Init /\ [][NextAttends]_vars

\* The group routes that create and delete: u1 creates one group and u2 joins
\* it; both post, comment and delete.
NextGroups ==
    \/ Cascade
    \/ groups = <<>> /\ CreateGroupFind("u1", "a")
    \/ \E r \in grouping : CreateGroupCreate(r)
    \/ JoinFind("u2", 1)
    \/ \E r \in grouping : MemberSave(r)
SpecGroups == Init /\ [][NextGroups]_vars

\* The names of groups: both users create and rename.
NextNames ==
    \/ \E u \in Users, n \in GroupNames : CreateGroupFind(u, n)
    \/ \E r \in grouping : CreateGroupCreate(r)
    \/ \E u \in Users, g \in GroupIds, n \in GroupNames \cup {Absent} :
         UpdateGroupFind(u, g, n)
    \/ \E r \in grouping : MemberSave(r)
SpecNames == Init /\ [][NextNames]_vars

\* Posts and comments of one group that u1 created and u2 joined: u2 posts,
\* both comment, and u1, the admin, deletes.
JoinedGroup == [NewGroup("a", "u1") EXCEPT !.members = Users, !.memberCount = 2]
InitCounts ==
    /\ sockets = [c \in SocketIds |-> "new"]
    /\ connectedUsers = <<>>
    /\ messages = <<>>
    /\ nextId = 1
    /\ now = 0
    /\ sending = {}
    /\ reading = {}
    /\ out = {}
    /\ res = NoResponse
    /\ events = <<>>
    /\ userDocs = [u \in Users |-> NoLists]
    /\ attending = {}
    /\ groups = <<JoinedGroup>>
    /\ posts = <<>>
    /\ comments = <<>>
    /\ grouping = {}
    /\ accounts = SeededAccounts(Users)

NextCounts ==
    \/ PostFind("u2", 1)
    \/ \E r \in grouping, c \in Contents : PostCreate(r, c)
    \/ \E r \in grouping : PostSave(r)
    \/ \E u \in Users, p \in PostIds : CommentFind(u, p)
    \/ \E r \in grouping, c \in Contents : CommentCreate(r, c)
    \/ \E r \in grouping : CommentSave(r)
    \/ \E p \in PostIds : DeletePostFind("u1", p)
    \/ \E r \in grouping : DeletePostStep(r)
    \/ \E c \in CommentIds : DeleteCommentFind("u1", c)
    \/ \E r \in grouping : DeleteCommentStep(r)
SpecCounts == InitCounts /\ [][NextCounts]_vars

\* Likes and membership: a group of u1 with one post; u1 and u2 toggle
\* their like, u2 and u3 join, u2 leaves.
InitSizes ==
    /\ sockets = [c \in SocketIds |-> "new"]
    /\ connectedUsers = <<>>
    /\ messages = <<>>
    /\ nextId = 1
    /\ now = 0
    /\ sending = {}
    /\ reading = {}
    /\ out = {}
    /\ res = NoResponse
    /\ events = <<>>
    /\ userDocs = [u \in Users |-> NoLists]
    /\ attending = {}
    /\ groups = <<[NewGroup("a", "u1") EXCEPT !.postCount = 1]>>
    /\ posts = <<NewPost(1, "u1")>>
    /\ comments = <<>>
    /\ grouping = {}
    /\ accounts = SeededAccounts(Users)

NextSizes ==
    \/ \E u \in Users : LikeFind(u, 1)
    \/ \E r \in grouping : LikeSave(r)
    \/ \E u \in {"u2", "u3"} : JoinFind(u, 1)
    \/ LeaveFind("u2", 1)
    \/ \E r \in grouping : MemberSave(r)
SpecSizes == InitSizes /\ [][NextSizes]_vars

\* Membership of one group: u1 creates it and renames it; u1, u2 and u3 join
\* and leave, at most two requests in flight at a time.
Joiners == Users \cup {"u3"}
MaxInFlight == 2
NextMembers ==
    \/ /\ Cardinality(grouping) < MaxInFlight
       /\ \/ CreateGroupFind("u1", "a")
          \/ UpdateGroupFind("u1", 1, "b")
          \/ \E u \in Joiners : JoinFind(u, 1)
          \/ \E u \in Joiners : LeaveFind(u, 1)
    \/ \E r \in grouping : CreateGroupCreate(r)
    \/ \E r \in grouping : MemberSave(r)
SpecMembers == Init /\ [][NextMembers]_vars

\* Attendance across events and users: u1 creates events and deletes them,
\* both users attend and save, and the store may fail an event save.
NextLists ==
    \/ \E n \in Capacities : CreateEvent("u1", TRUE, n)
    \/ Attendance
    \/ \E r \in attending : AttendSaveFails(r)
    \/ \E e \in EventIds : DeleteEventFind("u1", e)
    \/ \E r \in attending : DeleteEventStep(r)
    \/ \E u \in Users, e \in EventIds : ToggleSave(u, e)
SpecLists == Init /\ [][NextLists]_vars

\* The recommendation endpoint on its own, asked in every state of the users'
\* event lists and the groups' member lists: three users, two events, two
\* groups.
RecUsers == Users \cup {"u3"}
RecEvents == {1, 2}
RecGroups ==
    {[name |-> n, creator |-> CHOOSE c \in m : TRUE, admins |-> {CHOOSE c \in m : TRUE},
      members |-> m, memberCount |-> Cardinality(m), postCount |-> 0, stored |-> TRUE] :
        n \in {"a"}, m \in SUBSET RecUsers \ {{}}}

InitRecommend ==
    /\ sockets = [c \in SocketIds |-> "new"]
    /\ connectedUsers = <<>>
    /\ messages = <<>>
    /\ nextId = 1
    /\ now = 0
    /\ sending = {}
    /\ reading = {}
    /\ out = {}
    /\ res = NoResponse
    /\ events = <<>>
    /\ userDocs \in [RecUsers -> {[NoLists EXCEPT !.savedEvents = s, !.eventsAttending = a] :
                                    s \in SUBSET RecEvents, a \in {{}, {2}}}]
    /\ attending = {}
    /\ groups \in {<<g, [h EXCEPT !.name = "b"]>> : g, h \in RecGroups}
    /\ posts = <<>>
    /\ comments = <<>>
    /\ grouping = {}
    /\ accounts = SeededAccounts(RecUsers)

NextRecommend == \E u \in RecUsers : Recommendations(u)
SpecRecommend == InitRecommend /\ [][NextRecommend]_vars

\* The account routes and the middleware in front of them, from every state
\* of the users' isActive flags (an account is deactivated in the database,
\* no route writes the flag); u1 creates a group for the group detail, asks
\* for recommendations, and sends one message to u2 over one connection.
InitAuth ==
    /\ sockets = [c \in SocketIds |-> "new"]
    /\ connectedUsers = <<>>
    /\ messages = <<>>
    /\ nextId = 1
    /\ now = 0
    /\ sending = {}
    /\ reading = {}
    /\ out = {}
    /\ res = NoResponse
    /\ events = <<>>
    /\ userDocs \in [Users -> {NoLists, [NoLists EXCEPT !.isActive = FALSE]}]
    /\ attending = {}
    /\ groups = <<>>
    /\ posts = <<>>
    /\ comments = <<>>
    /\ grouping = {}
    /\ accounts = SeededAccounts(Users)
NextAuth ==
    \/ Accounts
    \/ CreateGroupFind("u1", "a")
    \/ \E r \in grouping : CreateGroupCreate(r)
    \/ Recommendations("u1")
    \/ Connect(1)
    \/ \E t \in LaterTimestamp : SendMessage(1, "u1", "u2", " hi ", t)
    \/ \E p \in sending : SendDeliver(p)
SpecAuth == InitAuth /\ [][NextAuth]_vars

\* The creator's routes, from a collection that is empty or holds one event
\* stored before the creator field existed.
LegacyEvent == NewEvent(Absent, Unlimited)
InitCreators ==
    /\ sockets = [c \in SocketIds |-> "new"]
    /\ connectedUsers = <<>>
    /\ messages = <<>>
    /\ nextId = 1
    /\ now = 0
    /\ sending = {}
    /\ reading = {}
    /\ out = {}
    /\ res = NoResponse
    /\ events \in {<<>>, <<LegacyEvent>>}
    /\ userDocs = [u \in Users |-> NoLists]
    /\ attending = {}
    /\ groups = <<>>
    /\ posts = <<>>
    /\ comments = <<>>
    /\ grouping = {}
    /\ accounts = SeededAccounts(Users)
NextCreators ==
    \/ \E u \in Users, n \in Capacities : CreateEvent(u, TRUE, n)
    \/ \E u \in Users, e \in EventIds, a \in PutAttendees, n \in PutCapacities :
         UpdateEvent(u, e, a, n)
    \/ \E u \in Users, e \in EventIds, s \in {"cancelled", "bogus"} : SetStatus(u, e, s)
    \/ \E u \in Users, e \in EventIds : ToggleSave(u, e)
    \/ EventDeletes
SpecCreators == InitCreators /\ [][NextCreators]_vars

\* ================================================================ claims
\* ----------------------------------------------------------------- C1
\* C1: a register event for user U on connection C makes the lookup of U
\* answer C, and the lookup keeps answering C over every step that is neither
\* a register event for U nor the disconnect of C: register events for other
\* users and disconnects of other connections leave U's entry alone.
C1_LookupFollowsLastRegistration ==
    [][\A u \in ObjectIds, c \in SocketIds :
         /\ Register(c, u) => MapGet(connectedUsers', u) = c
         /\ ( /\ MapGet(connectedUsers, u) = c
              /\ ~(\E d \in SocketIds : Register(d, u))
              /\ ~Disconnect(c) )
            => MapGet(connectedUsers', u) = c]_vars

\* u1 registered again on connection 2 and kept that entry while connection 1,
\* which had another user's entry, disconnected.
C1_Witness ==
    /\ sockets[1] = "disconnected"
    /\ sockets[2] = "connected"
    /\ MapGet(connectedUsers, "u1") = 2
    /\ MapGet(connectedUsers, "u2") = 2
    /\ connectedUsers[1].userId = "u1"

\* ----------------------------------------------------------------- C2
\* C2: once a connection has disconnected, no user of the registry resolves
\* to it.
C2_NoEntryOfDisconnected ==
    \A c \in SocketIds :
        sockets[c] = "disconnected"
            => \A u \in ObjectIds : MapGet(connectedUsers, u) # c

\* ----------------------------------------------------------------- C3
\* C3: a sendMessage event whose sender, receiver or message is absent stores
\* nothing and starts no delivery; all the server emits for it is one
\* messageError, to the socket the event came from.  (The first stretch of a
\* sendMessage handler leaves sockets and registry alone and ends no suspended
\* handler: steps that do are none of its steps.)
C3_AbsentFieldStoresNothing ==
    [][\A c \in SocketIds :
         \/ /\ messages' = messages
            /\ nextId' = nextId
            /\ sending' = sending
            /\ Cardinality(out') = 1
            /\ \A e \in out' : e.ev = "messageError" /\ e.to = c
         \/ sockets' # sockets
         \/ connectedUsers' # connectedUsers
         \/ ~(sending \subseteq sending')
         \/ \A p \in RelayPayloads :
              Falsy(p[1]) \/ Falsy(p[2]) \/ Falsy(p[3])
                 => ~( \/ SendMessageInvalid(c, p[1], p[2], p[3])
                       \/ SendMessageCreateFails(c, p[1], p[2], p[3])
                       \/ \E t \in LaterTimestamp :
                            SendMessage(c, p[1], p[2], p[3], t) )]_vars

\* The validation error went to socket 2 while an earlier message stayed
\* stored and its handler stayed suspended.
C3_Witness ==
    /\ out = {Event(2, "messageError", NoDoc, {}, ValidationMessage)}
    /\ DOMAIN messages = {1}
    /\ Cardinality(sending) = 1

\* ----------------------------------------------------------------- C4
\* C4: under every interleaving of sends, registrations and disconnects, a
\* newMessage or messageSent event carries a document that is in the
\* messages collection when the event is emitted.
C4_StoredBeforeEmitted ==
    \A e \in out :
        e.ev \in {"newMessage", "messageSent"}
            => /\ e.msg._id \in DOMAIN messages
               /\ e.msg = Populate(messages[e.msg._id])

\* The second message was pushed to the receiver's socket and acknowledged
\* while the handler of the first was still suspended.
C4_Witness ==
    /\ \E e \in out : e.ev = "newMessage" /\ e.msg._id = 2 /\ e.to = 2
    /\ \E e \in out : e.ev = "messageSent" /\ e.msg._id = 2 /\ e.to = 1
    /\ \E p \in sending : p.newMessage._id = 1

\* ----------------------------------------------------------------- C5
\* C5: a sendMessage handler that stored its message ends by emitting
\* messageSent, with that message, to the sending socket, and never by
\* emitting messageError.
C5_StoredSendIsAcknowledged ==
    [][\A p \in sending :
         p \notin sending'
            => /\ Event(p.socket, "messageSent", Populate(p.newMessage), {}, NoError)
                    \in out'
               /\ \A e \in out' : e.ev # "messageError"]_vars

\* ----------------------------------------------------------------- C6
\* C6: a step that emits newMessage or messageSent ends the handler of one
\* stored message; it emits newMessage to the socket that connectedUsers has
\* for the receiver at that moment and to no other socket, emits nothing to
\* a receiver without an entry, emits no messageError, and leaves no handler
\* behind that could push the message again.
C6_PushToRegistryEntryOnly ==
    [][\A e \in out' :
         e.ev \in {"newMessage", "messageSent"}
            => \E p \in sending \ sending' :
                 LET receiverSocketId == MapGet(connectedUsers', p.receiver)
                     pushed == {x \in out' : x.ev = "newMessage"}
                 IN  /\ p.newMessage._id = e.msg._id
                     /\ pushed = IF receiverSocketId = Undefined THEN {}
                                 ELSE {Event(receiverSocketId, "newMessage",
                                             e.msg, {}, NoError)}
                     /\ \A x \in out' : x.ev # "messageError"
                     /\ \A q \in sending' : q.newMessage._id # e.msg._id]_vars

\* A send to a receiver without an entry was acknowledged and pushed nowhere,
\* and another user had an entry for a socket that had disconnected.
C6_Witness ==
    /\ 1 \in DOMAIN messages
    /\ out = {Event(2, "messageSent", Populate(messages[1]), {}, NoError)}
    /\ ~MapHas(connectedUsers, "u2")
    /\ MapGet(connectedUsers, "u1") = 1
    /\ sockets[1] = "disconnected"

\* A send was pushed to the socket of the receiver's entry.
C6_WitnessPushed ==
    /\ 1 \in DOMAIN messages
    /\ Event(1, "newMessage", Populate(messages[1]), {}, NoError) \in out
    /\ Event(2, "messageSent", Populate(messages[1]), {}, NoError) \in out
    /\ MapGet(connectedUsers, "u2") = 1

\* ----------------------------------------------------------------- C7
\* C7: a markAsRead event from a connection that is registered changes the
\* read flag only of messages whose receiver is registered on that connection.
C7_ReaderMarksOwnInboxOnly ==
    [][\A c \in SocketIds, ids \in SUBSET MessageIds, userId \in ObjectIds :
         ( /\ MarkAsRead(c, ids, userId)
           /\ \E R \in ObjectIds : MapGet(connectedUsers, R) = c )
         => \A m \in DOMAIN messages :
              messages'[m].read # messages[m].read
                 => MapGet(connectedUsers, messages[m].receiver) = c]_vars

\* ----------------------------------------------------------------- C8
\* The documents of the collection between the unordered pair {a, b}.
Between(coll, a, b) ==
    {m \in DOMAIN coll :
        \/ coll[m].sender = a /\ coll[m].receiver = b
        \/ coll[m].sender = b /\ coll[m].receiver = a}

\* C8: the history A asks for with partner B is, when the find runs, exactly
\* the stored messages whose (sender, receiver) is (A, B) or (B, A), each
\* once, in ascending order of createdAt, and that list is what the handler
\* answers with.
C8_HistoryIsTheConversation ==
    [][/\ \A r \in reading' \ reading :
            r.pc = "updateMany"
               => LET found == {r.messages[i]._id : i \in 1..Len(r.messages)} IN
                  /\ found = Between(messages', r.currentUserId, r.otherUserId)
                  /\ Len(r.messages) = Cardinality(found)
                  /\ \A i \in 1..Len(r.messages) :
                        r.messages[i] = Populate(messages'[r.messages[i]._id])
                  /\ \A i, j \in 1..Len(r.messages) :
                        i < j => r.messages[i].createdAt <= r.messages[j].createdAt
       /\ \A r \in reading' \ reading :
            r.pc = "respond"
               => [r EXCEPT !.pc = "updateMany"] \in reading \ reading'
       /\ \A r \in reading \ reading' :
            r.pc = "respond"
               => res' = Response(r.currentUserId, "history", 200, r.messages)]_vars

\* u1 was answered with both messages of its conversation with u2, one in each
\* direction, the older first.
C8_Witness ==
    /\ res.op = "history" /\ res.status = 200 /\ res.to = "u1"
    /\ Len(res.body) = 2
    /\ res.body[1].sender = "u2" /\ res.body[1].receiver = "u1"
    /\ res.body[2].sender = "u1" /\ res.body[2].receiver = "u2"
    /\ res.body[1].createdAt < res.body[2].createdAt

\* u1 was answered with its one message with u2 and not with the message it
\* has with another partner.
C8_WitnessOtherConversation ==
    /\ res.op = "history" /\ res.status = 200 /\ res.to = "u1"
    /\ Len(res.body) = 1
    /\ res.body[1].sender = "u2"
    /\ \E m \in DOMAIN messages : messages[m].sender = "u1" /\ messages[m].receiver = "u1"

\* The partners of userId in the store, and the stored messages of one pair.
PartnersOf(userId) ==
    {PartnerOf(messages[i], userId) :
        i \in {j \in DOMAIN messages : ConversationsFilter(userId, messages[j])}}
MessagesWith(userId, partner) ==
    {i \in DOMAIN messages : /\ ConversationsFilter(userId, messages[i])
                             /\ PartnerOf(messages[i], userId) = partner}

\* What the conversation lists that `userId` can get say of `partner`.
UnreadReports(userId, partner) ==
    {<<resp.status, {resp.body[k].unreadCount :
                       k \in {j \in 1..Len(resp.body) :
                                resp.body[j].partnerId = partner}}>> :
        resp \in ConversationsResponses(userId)}

\* C9: when the history B asked for with partner A is answered, and every
\* stored message from A to B is in it (no send in between), every message
\* from A to B is read and every conversation list B can get is a list that
\* reports no unread message for A; the updateMany of that history leaves
\* every message that is not from A to B as it was, and what A's conversation
\* list reports as unread for B as it was.
C9_HistoryReadsInboxOnly ==
    [][\A r \in reading :
         LET B == r.currentUserId
             A == r.otherUserId
             FromAToB(doc) == doc.sender = A /\ doc.receiver = B
         IN  A \in Users /\ A # B =>
               /\ ( /\ HistoryRespond(r)
                    /\ \A i \in DOMAIN messages :
                         FromAToB(messages[i]) =>
                            \E k \in 1..Len(r.messages) : r.messages[k]._id = i )
                  => /\ \A i \in DOMAIN messages' :
                          FromAToB(messages'[i]) => messages'[i].read
                     /\ \A report \in UnreadReports(B, A)' :
                          report[1] = 200 /\ report[2] \subseteq {0}
               /\ HistoryUpdate(r)
                  => /\ \A i \in DOMAIN messages :
                          ~FromAToB(messages[i]) => messages'[i] = messages[i]
                     /\ UnreadReports(A, B)' = UnreadReports(A, B)]_vars

\* C10: a conversation list answered to U has exactly one entry per partner
\* with whom U has a stored message; the entry's lastMessage is a message of
\* U and that partner than which none is newer, the entries are in
\* descending order of that message's creation time, and unreadCount is the
\* number of unread stored messages from the partner to U.
C10_ConversationListOfEveryPartner ==
    res.op = "conversations" =>
      /\ res.status = 200
      /\ LET U == res.to
             list == res.body
         IN  /\ {list[k].partnerId : k \in 1..Len(list)} = PartnersOf(U)
             /\ Len(list) = Cardinality(PartnersOf(U))
             /\ \A k \in 1..Len(list) :
                  LET partner == list[k].partnerId
                      last == list[k].lastMessage
                  IN  /\ last._id \in MessagesWith(U, partner)
                      /\ \A i \in MessagesWith(U, partner) :
                           messages[i].createdAt <= last.createdAt
                      /\ list[k].unreadCount =
                           Cardinality({i \in DOMAIN messages :
                                          /\ messages[i].sender = partner
                                          /\ messages[i].receiver = U
                                          /\ ~messages[i].read})
             /\ \A k, l \in 1..Len(list) :
                  k < l => list[k].lastMessage.createdAt
                              >= list[l].lastMessage.createdAt

\* ----------------------------------------------------------------- C11
\* C11: a message is unread when it is created, and a message that is read
\* stays read in every later state in which it is still stored: no step of
\* send, markAsRead, history, REST send or delete sets the flag back.
C11_ReadIsOneDirectional ==
    [][/\ \A m \in DOMAIN messages' \ DOMAIN messages : ~messages'[m].read
       /\ \A m \in DOMAIN messages \cap DOMAIN messages' :
            messages[m].read => messages'[m].read]_vars

\* A message was read and a later message was created after it: the older
\* one is still read, the newer one unread.
C11_Witness ==
    \E m, n \in DOMAIN messages :
        m < n /\ messages[m].read /\ ~messages[n].read

\* ----------------------------------------------------------------- C12
\* C12: a delete request for a stored message by a user who is not its sender
\* is answered 403 and leaves the store as it was; for a message that is not
\* stored it is answered 404; a message leaves the store only by a delete
\* request of its sender, answered 200; and no delete request emits a
\* realtime event.
C12_OnlySenderDeletes ==
    [][/\ \A userId \in Users, messageId \in MessageIds :
            Delete(userId, messageId) =>
              /\ out' = {}
              /\ res'.op = "delete" /\ res'.to = userId
              /\ messageId \notin DOMAIN messages
                   => res'.status = 404 /\ messages' = messages
              /\ messageId \in DOMAIN messages
                   => IF messages[messageId].sender = userId
                      THEN /\ res'.status = 200
                           /\ DOMAIN messages' = DOMAIN messages \ {messageId}
                      ELSE res'.status = 403 /\ messages' = messages
       /\ \A m \in DOMAIN messages \ DOMAIN messages' :
            /\ res'.op = "delete" /\ res'.status = 200
            /\ res'.to = messages[m].sender]_vars

\* A user was refused the deletion of a message somebody else sent, and the
\* message is still stored.
C12_Witness ==
    /\ res.op = "delete" /\ res.status = 403
    /\ \E m \in DOMAIN messages : messages[m].sender # res.to

\* A sender deleted one of two stored messages.
C12_WitnessDeleted ==
    /\ res.op = "delete" /\ res.status = 200
    /\ nextId = 3 /\ Cardinality(DOMAIN messages) = 1

\* ----------------------------------------------------------------- C13
\* C13: a step in which a sendMessage or a markAsRead handler fails emits an
\* error event to the connection the event came from, and emits nothing to
\* any other connection.
C13_FailureReportedToOrigin ==
    [][\A c \in SocketIds :
         ( \/ MarkAsReadFails(c)
           \/ \E p \in sending : p.socket = c /\ SendPopulateFails(p)
           \/ \E p \in RelayPayloads :
                \/ SendMessageInvalid(c, p[1], p[2], p[3])
                \/ SendMessageCreateFails(c, p[1], p[2], p[3]) )
         => /\ \E e \in out' : e.to = c /\ e.error # NoError
            /\ \A e \in out' : e.to = c]_vars

\* ----------------------------------------------------------------- C14
\* The members of a list.
Members(list) == {list[i] : i \in 1..Len(list)}

C14_WitnessLastSlot ==
    /\ res.op = "attend" /\ res.status = 200
    /\ \E e \in DOMAIN events :
         /\ events[e].capacity = 2
         /\ Len(events[e].attendeesList) = 2
         /\ events[e].attendeesList[2] = res.to

\* ----------------------------------------------------------------- C15
\* C15: in every state, the attendee counter of every event equals the length
\* of its attendee list.
C15_CounterIsListLength ==
    \A e \in DOMAIN events : events[e].attendees = Len(events[e].attendeesList)

\* ----------------------------------------------------------------- C16
\* C16: in every state, an event with a capacity has no more attendees than
\* its capacity.
C16_CapacityNeverExceeded ==
    \A e \in DOMAIN events :
        events[e].capacity # Unlimited
           => Cardinality(Members(events[e].attendeesList)) <= events[e].capacity

\* ----------------------------------------------------------------- C17
\* A toggle that is not refused for capacity.
Succeeds(event, userId) == IsAttending(event, userId) \/ ~AtCapacity(event)

\* C17: in every state, for every event and user, two toggles of that user
\* run one after the other with nothing in between, both successful, leave
\* the event's counter and its attendee set as they are; and when the user is
\* not attending, the event is not in the user's attending list afterwards.
C17_TwoTogglesRestore ==
    \A e \in DOMAIN events, u \in Users :
        LET before == events[e]
            between == ToggleLocal(before, u)
            after == ToggleLocal(between, u)
            isAttending == IsAttending(before, u)
            list == ToggleAttending(
                        ToggleAttending(userDocs[u].eventsAttending, isAttending, e),
                        ~isAttending, e)
        IN  Succeeds(before, u) /\ Succeeds(between, u)
               => /\ after.attendees = before.attendees
                  /\ Members(after.attendeesList) = Members(before.attendeesList)
                  /\ ~isAttending => e \notin list

\* ----------------------------------------------------------------- C18
\* C18: in every state in which a group has been deleted and its deletion has
\* been answered, no stored post is of that group and no stored comment is on
\* a post of that group (a post that is gone, or one that is still stored).
C18_DeletedGroupLeavesNothing ==
    \A g \in 1..Len(groups) :
        ( /\ ~groups[g].stored
          /\ \A r \in grouping : ~(r.op = "deleteGroup" /\ r.id = g) )
        => /\ \A p \in Stored(posts) : posts[p].group # g
           /\ \A c \in Stored(comments) :
                /\ comments[c].post \in Stored(posts)
                /\ posts[comments[c].post].group # g

\* ----------------------------------------------------------------- C19
\* The events and the groups a candidate shares with the requester.
SharedEvents(userId, c) == UserEventIds(userId) \cap UserEventIds(c)
SharedGroups(userId, c) ==
    {g \in Stored(groups) : userId \in groups[g].members /\ c \in groups[g].members}

\* C19: when the recommendations are answered, the score of every candidate
\* who shares an event or a group with the requester is the number of events
\* shared plus twice the number of groups shared, and the answer lists the
\* candidates in non-increasing order of score.
C19_ScoreCountsEventsAndGroups ==
    res.op = "recommendations" =>
      /\ \A c \in DOMAIN userDocs \ {res.to} :
           SharedEvents(res.to, c) # {} \/ SharedGroups(res.to, c) # {}
              => Score(res.to, c) = Cardinality(SharedEvents(res.to, c))
                                    + 2 * Cardinality(SharedGroups(res.to, c))
      /\ \A i, j \in 1..Len(res.body) :
           i < j => Score(res.to, res.body[i]._id) >= Score(res.to, res.body[j]._id)

\* ----------------------------------------------------------------- C20
\* C20: when the recommendations are answered and no other user shares an
\* event or a group with the requester, the answer is the active users other
\* than the requester.
C20_FallbackWithoutOverlap ==
    ( /\ res.op = "recommendations"
      /\ \A c \in DOMAIN userDocs \ {res.to} :
           SharedEvents(res.to, c) = {} /\ SharedGroups(res.to, c) = {} )
    => {res.body[i]._id : i \in 1..Len(res.body)} = ActiveUsers(res.to)

\* ----------------------------------------------------------------- C21
\* The routes behind protect, and the requests the claim lets through.
ProtectedOps == {"me", "updateprofile", "changepassword", "upload-avatar",
                 "search-users", "profile"}
Authentic(header) ==
    /\ header.scheme = "Bearer"
    /\ Verifies(header.token)
    /\ header.token.id \in DOMAIN accounts
    /\ userDocs[header.token.id].isActive
HandlerCalled(r) == \E i \in 1..Len(r.body) : r.body[i].by = "handler"

\* C21: in every state of the users collection, protect calls next() for a
\* header exactly when it carries a Bearer token that verifies and names an
\* existing, active user, and sends nothing then; for any other header it
\* sends one 401 and does not call next().  Every answered request to a
\* route behind protect got exactly one response: the middleware's 401 with
\* the handler not called, or the handler's, for an existing active user.
C21_ProtectPassesAuthenticOnly ==
    /\ \A h \in Headers :
         /\ Protect(h).next <=> Authentic(h)
         /\ Protect(h).sent = IF Authentic(h) THEN <<>> ELSE <<Sent(401, "protect", {})>>
    /\ res.op \in ProtectedOps =>
         /\ Len(res.body) = 1
         /\ IF HandlerCalled(res)
            THEN res.to \in DOMAIN accounts /\ userDocs[res.to].isActive
            ELSE res.body = <<Sent(401, "protect", {})>>
C21_Witness ==
    /\ res.op = "me"
    /\ res.status = 401
    /\ ~userDocs["u1"].isActive
C21_WitnessPassed == res.op = "me" /\ res.status = 200 /\ res.to = "u2"

\* ----------------------------------------------------------------- C22
\* The user objects in the response of the last step, and those populated
\* into the sender and receiver of the messages it emitted.
UserObjects ==
    IF res.op = "recommendations" THEN {res.body[i] : i \in 1..Len(res.body)}
    ELSE IF \A i \in 1..Len(res.body) : "users" \in DOMAIN res.body[i]
    THEN UNION {res.body[i].users : i \in 1..Len(res.body)}
    ELSE {}
EmittedUserObjects ==
    UNION {PopulateUser(e.msg.sender, {"name"}) \cup PopulateUser(e.msg.receiver, {"name"}) :
             e \in {x \in out : x.msg # NoDoc}}

\* C22: no user object in a response or in an emitted event has a password
\* field.
C22_NoPasswordLeaves ==
    \A user \in UserObjects \cup EmittedUserObjects : "password" \notin DOMAIN user
C22_WitnessEmitted == EmittedUserObjects # {}
C22_Witness ==
    /\ res.op = "login"
    /\ res.status = 200
    /\ \E user \in UserObjects : user._id = res.to /\ accounts[res.to].password = Hash("secret99")

\* ----------------------------------------------------------------- C23
\* A request of `userId` to one of the three creator's routes on event `id`.
CreatorRequest(userId, id) ==
    \/ \E a \in PutAttendees, n \in PutCapacities : UpdateEvent(userId, id, a, n)
    \/ SetStatus(userId, id, "cancelled")
    \/ DeleteEventFind(userId, id)

\* C23: a PUT, DELETE or status request on a stored event by a user who is
\* not its creator is answered 403 and leaves the event, the users' lists
\* and the handlers in flight as they were; this for an event stored
\* without a creator as well.
C23_OnlyCreatorChangesEvent ==
    [][\A u \in Users, e \in EventIds :
         e \in Stored(events) /\ events[e].creator # u /\ CreatorRequest(u, e)
            => /\ res'.status = 403
               /\ UNCHANGED <<events, userDocs, attending>>]_vars

\* ----------------------------------------------------------------- C24
\* C24: in every state no two stored groups have the same name, whatever
\* create and update requests were made and however they interleaved.
C24_GroupNamesUnique ==
    \A g, h \in Stored(groups) : g # h => groups[g].name # groups[h].name

\* ----------------------------------------------------------------- C25
\* The stored comments on a post, and the stored posts of a group.
CommentsOn(p) == {c \in Stored(comments) : comments[c].post = p}
PostsOf(g) == {p \in Stored(posts) : posts[p].group = g}

\* C25: in every state in which no request is in flight, commentCount of
\* every stored post is the number of stored comments on it and postCount of
\* every stored group is the number of stored posts in it.
C25_ChildCountersMatch ==
    grouping = {} =>
        /\ \A p \in Stored(posts) : posts[p].commentCount = Cardinality(CommentsOn(p))
        /\ \A g \in Stored(groups) : groups[g].postCount = Cardinality(PostsOf(g))

\* ----------------------------------------------------------------- C26
\* C26: in every state in which no request is in flight, likeCount of every
\* stored post is the number of users in its likes and memberCount of every
\* stored group is the number of users in its members.
C26_SetCountersMatch ==
    grouping = {} =>
        /\ \A p \in Stored(posts) : posts[p].likeCount = Cardinality(posts[p].likes)
        /\ \A g \in Stored(groups) : groups[g].memberCount = Cardinality(groups[g].members)

\* ----------------------------------------------------------------- C30
\* A request that is answered 400 and leaves the groups and the requests in
\* flight as they were.
Refuses == res'.status = 400 /\ groups' = groups /\ grouping' = grouping

\* C30: the creator of every stored group is a member and an admin of it and
\* every admin is a member; a leave request by the creator of the group and
\* a join request by a member of it are answered 400 and change nothing.
C30_CreatorStaysMemberAndAdmin ==
    /\ [](\A g \in Stored(groups) :
            /\ groups[g].creator \in groups[g].members
            /\ groups[g].creator \in groups[g].admins
            /\ groups[g].admins \subseteq groups[g].members)
    /\ [][\A u \in Joiners, g \in Stored(groups) :
            /\ LeaveFind(u, g) /\ groups[g].creator = u => Refuses
            /\ JoinFind(u, g) /\ u \in groups[g].members => Refuses]_vars

\* The creator of a group that others have joined asked to leave and got 400.
C30_Witness ==
    /\ res.op = "leave" /\ res.status = 400
    /\ \E g \in Stored(groups) :
          groups[g].creator = res.to /\ groups[g].members # {res.to}

\* A member left, and a join of a member was answered 400.
C30_WitnessLeft == res.op = "leave" /\ res.status = 200
C30_WitnessJoin == res.op = "join" /\ res.status = 400
C30_WitnessStale == res.op = "leave" /\ res.status = 500

\* ----------------------------------------------------------------- C27
\* The messages whose read flag a step turns to true.
TurnedRead ==
    {m \in DOMAIN messages \cap DOMAIN messages' :
        ~messages[m].read /\ messages'[m].read}

\* The history `r` carries message `m` to its receiver.
HistoryCarries(r, m) ==
    /\ r.currentUserId = messages[m].receiver
    /\ \E k \in 1..Len(r.messages) : r.messages[k]._id = m

\* C27: a step turns the read flag of a message to true only if it is the
\* update of a history request of the receiver whose response holds the
\* message, or a markAsRead that names the message and carries the id of
\* its receiver.
C27_ReadOnlyWhenSeen ==
    [][\A m \in TurnedRead :
         \/ \E r \in reading : HistoryUpdate(r) /\ HistoryCarries(r, m)
         \/ \E c \in SocketIds, ids \in SUBSET MessageIds :
              m \in ids /\ MarkAsRead(c, ids, messages[m].receiver)]_vars

\* ----------------------------------------------------------------- C28
\* C28: the disconnect of a connection leaves the entry of every user who
\* does not resolve to that connection as it was (a user who registered
\* again on another connection keeps resolving to that one), and removes at
\* most one entry.
C28_DisconnectRemovesOwnEntryOnly ==
    [][\A c \in SocketIds :
         Disconnect(c) =>
            /\ \A u \in ObjectIds :
                  MapGet(connectedUsers, u) # c
                     => MapGet(connectedUsers', u) = MapGet(connectedUsers, u)
            /\ Len(connectedUsers) - Len(connectedUsers') \in {0, 1}]_vars

\* Connection 1 has disconnected: u1, who registered again on connection 2,
\* resolves to 2, and of the entries of connection 1 one is left.
C28_Witness ==
    /\ sockets[1] = "disconnected"
    /\ sockets[2] = "connected"
    /\ connectedUsers = <<[userId |-> "u1", socketId |-> 2],
                          [userId |-> "u2", socketId |-> 1]>>

\* ----------------------------------------------------------------- C29
\* C29: in every state in which no attend or delete request is in flight, a
\* stored event is in a user's eventsAttending exactly when the user is in
\* its attendeesList, and every event in a user's eventsAttending or
\* savedEvents is stored.
C29_AttendanceListsAgree ==
    attending = {} =>
        \A u \in DOMAIN userDocs :
            /\ \A e \in Stored(events) :
                  e \in userDocs[u].eventsAttending <=> IsAttending(events[e], u)
            /\ userDocs[u].eventsAttending \cup userDocs[u].savedEvents
                  \subseteq Stored(events)

====
